---------------------------- MODULE Spec2Model ----------------------------
(***************************************************************************)
(* CASCADE Living OS: the streak analyzer (lib/utils.ts) and the AURA      *)
(* evaluator (lib/aura/index.ts).                                          *)
(*                                                                         *)
(* Time is in milliseconds since the epoch, as in the source.  A date key  *)
(* (the 'YYYY-MM-DD' prefix of toISOString) is represented by the number   *)
(* of the UTC day it names; for the years 0000..9999 the string order the  *)
(* source sorts by is the order of these numbers.  Metric values are in    *)
(* hundredths (0.70 is 70), the precision the source rounds to.            *)
(***************************************************************************)
EXTENDS Integers, Sequences, FiniteSets, TLC

VARIABLES host, now, timestamps, streak,
          request, estimated, thresholds, aura, decision, inverted,
          dates, metricCall, metricOut, presets, heap, results,
          page, items, selected, ui, history, localStorage, dateNow,
          wrapper, timers, timeoutId, inThrottle, trace

vars == <<host, now, timestamps, streak,
          request, estimated, thresholds, aura, decision, inverted,
          dates, metricCall, metricOut, presets, heap, results,
          page, items, selected, ui, history, localStorage, dateNow,
          wrapper, timers, timeoutId, inThrottle, trace>>

streakVars == <<host, now, timestamps, streak>>
auraVars == <<request, estimated, thresholds, aura, decision, inverted>>
metricVars == <<metricCall, metricOut>>
frameVars == <<presets, heap, results>>
sessionVars == <<page, items, selected, ui, history, localStorage, dateNow>>
timerVars == <<wrapper, timers, timeoutId, inThrottle, trace>>
otherVars == <<dates, metricCall, metricOut, presets, heap, results,
               page, items, selected, ui, history, localStorage, dateNow,
               wrapper, timers, timeoutId, inThrottle, trace>>

(***************************************************************************)
(* Bounds of the model.                                                    *)
(***************************************************************************)
MaxDay == 6
MaxLen == 3
MaxWords == 12
MaxCalls == 4
MaxEntries == 2
MaxSteps == 3
MaxTime == 3

Max(a, b) == IF a >= b THEN a ELSE b
Min(a, b) == IF a <= b THEN a ELSE b

(***************************************************************************)
(* Time and the host's time zone.                                          *)
(***************************************************************************)
MsPerDay == 86400000
MsPerHour == MsPerDay \div 24

SwitchDay == MaxDay - 2

\* A host time zone: local time = UTC + before until the instant switchAt,
\* UTC + after from then on.  A zone without daylight saving has before = after.
Hosts ==
  { [name |-> "UTC", before |-> 0, after |-> 0, switchAt |-> 0],
    [name |-> "Asia/Tokyo", before |-> 9 * MsPerHour, after |-> 9 * MsPerHour,
       switchAt |-> 0],
    [name |-> "Europe/Berlin (summer time ends)",
       before |-> 2 * MsPerHour, after |-> 1 * MsPerHour,
       switchAt |-> SwitchDay * MsPerDay + 1 * MsPerHour],
    [name |-> "America/New_York (summer time ends)",
       before |-> 0 - 4 * MsPerHour, after |-> 0 - 5 * MsPerHour,
       switchAt |-> SwitchDay * MsPerDay + 6 * MsPerHour],
    [name |-> "Europe/Berlin (summer time begins)",
       before |-> 1 * MsPerHour, after |-> 2 * MsPerHour,
       switchAt |-> SwitchDay * MsPerDay + 1 * MsPerHour] }

FixedOffset(h) == h.before = h.after

\* ECMAScript LocalTime(t): the local time value of the instant t.
LocalTime(h, t) == t + (IF t < h.switchAt THEN h.before ELSE h.after)

\* ECMAScript UTC(lt): the instant of a local time value.  A local time that
\* occurs twice is the earlier instant; one that is skipped is read with the
\* offset in force before the transition.
UTCOfLocal(h, lt) ==
  LET u1 == lt - h.before
      u2 == lt - h.after
  IN IF u1 >= h.switchAt /\ u2 >= h.switchAt THEN u2 ELSE u1

\* new Date(key): a date-only ISO string is UTC midnight of that day.
DateOfKey(key) == key * MsPerDay

\* d.setDate(d.getDate() - 1): the same local time of day, one local
\* calendar day earlier.
setDateMinusOne(h, t) == UTCOfLocal(h, LocalTime(h, t) - MsPerDay)

getDateKey(t) == t \div MsPerDay

\* new Date(t).toDateString(): the local calendar date, as the number of the
\* local day.
toDateString(h, t) == LocalTime(h, t) \div MsPerDay

isToday(h, clock, timestamp) == toDateString(h, timestamp) = toDateString(h, clock)

isYesterday(h, clock, timestamp) ==
  toDateString(h, timestamp) = toDateString(h, clock - 86400000)

getDaysBetween(start, end) == (end - start) \div (1000 * 60 * 60 * 24)

(***************************************************************************)
(* calculateStreak                                                         *)
(***************************************************************************)
RECURSIVE InsertDesc(_, _)
InsertDesc(s, x) ==
  IF s = <<>> THEN <<x>>
  ELSE IF x >= Head(s) THEN <<x>> \o s
  ELSE <<Head(s)>> \o InsertDesc(Tail(s), x)

\* [...timestamps].sort((a, b) => b - a)
RECURSIVE SortDesc(_)
SortDesc(s) == IF s = <<>> THEN <<>> ELSE InsertDesc(SortDesc(Tail(s)), Head(s))

Reverse(s) == [i \in 1..Len(s) |-> s[Len(s) + 1 - i]]

RECURSIVE SetToDesc(_)
SetToDesc(S) ==
  IF S = {} THEN <<>>
  ELSE LET m == CHOOSE x \in S : \A y \in S : y <= x
       IN <<m>> \o SetToDesc(S \ {m})

\* A mutant of dayArrayOf: the day keys are not collapsed to a set.
dayArrayOf_NoDedupe(sorted) == [i \in 1..Len(sorted) |-> getDateKey(sorted[i])]

\* Array.from(new Set(sorted.map(getDateKey))).sort().reverse()
dayArrayOf(sorted) == SetToDesc({getDateKey(sorted[i]) : i \in 1..Len(sorted)})

\* dayArray[0] === today
isActiveTodayOf(dayArray, today) == dayArray[1] = today

\* The loop of the current streak, from position i of dayArray.
RECURSIVE walkStreak(_, _, _, _)
walkStreak(h, dayArray, i, checkDate) ==
  IF i > Len(dayArray) THEN 0
  ELSE IF dayArray[i] = checkDate
       THEN 1 + walkStreak(h, dayArray, i + 1,
                           getDateKey(setDateMinusOne(h, DateOfKey(checkDate))))
       ELSE 0

\* A mutant of currentStreak: the walk starts at the most recent active day.
currentStreak_FromLatest(h, dayArray, today, yesterday) ==
  walkStreak(h, dayArray, 1, dayArray[1])

currentStreak(h, dayArray, today, yesterday) ==
  LET checkDate == IF isActiveTodayOf(dayArray, today) THEN today ELSE yesterday
  IN IF dayArray[1] # today /\ dayArray[1] # yesterday
     THEN 0
     ELSE walkStreak(h, dayArray, 1, checkDate)

\* The loop of the longest streak, from position i of sortedAsc.
RECURSIVE scanLongest(_, _, _, _)
scanLongest(sortedAsc, i, longest, tempStreak) ==
  IF i > Len(sortedAsc) THEN <<longest, tempStreak>>
  ELSE LET diffDays == getDaysBetween(DateOfKey(sortedAsc[i - 1]),
                                      DateOfKey(sortedAsc[i]))
       IN IF diffDays = 1
          THEN scanLongest(sortedAsc, i + 1, longest, tempStreak + 1)
          ELSE scanLongest(sortedAsc, i + 1, Max(longest, tempStreak), 1)

\* A mutant of longestStreak: the final open run is not counted.
longestStreak_NoFinalRun(dayArray) == scanLongest(Reverse(dayArray), 2, 0, 1)[1]

longestStreak(dayArray) ==
  LET r == scanLongest(Reverse(dayArray), 2, 0, 1)
  IN Max(r[1], r[2])

\* A mutant of lastActiveOf: the start of the most recent active day.
lastActiveOf_Bucketed(sorted, dayArray) == <<DateOfKey(dayArray[1])>>

\* const lastActive = sorted[0]
lastActiveOf(sorted, dayArray) == <<sorted[1]>>

\* A mutant of calculateStreak: the empty list is not returned early, and
\* the longest streak ends as Math.max(0, tempStreak) = 1.
calculateStreak_NoEmptyGuard(h, clock, ts) ==
  IF Len(ts) = 0
  THEN [current |-> 0, longest |-> 1, lastActive |-> <<>>, isActiveToday |-> FALSE]
  ELSE LET sorted == SortDesc(ts)
           dayArray == dayArrayOf(sorted)
           today == getDateKey(clock)
           yesterday == getDateKey(clock - 86400000)
       IN [current |-> currentStreak(h, dayArray, today, yesterday),
           longest |-> longestStreak(dayArray),
           lastActive |-> lastActiveOf(sorted, dayArray),
           isActiveToday |-> isActiveTodayOf(dayArray, today)]

\* lastActive is <<>> for null and <<t>> for the timestamp t.
calculateStreak(h, clock, ts) ==
  IF Len(ts) = 0
  THEN [current |-> 0, longest |-> 0, lastActive |-> <<>>, isActiveToday |-> FALSE]
  ELSE LET sorted == SortDesc(ts)
           dayArray == dayArrayOf(sorted)
           today == getDateKey(clock)
           yesterday == getDateKey(clock - 86400000)
       IN [current |-> currentStreak(h, dayArray, today, yesterday),
           longest |-> longestStreak(dayArray),
           lastActive |-> lastActiveOf(sorted, dayArray),
           isActiveToday |-> isActiveTodayOf(dayArray, today)]

(***************************************************************************)
(* AURA validation                                                         *)
(***************************************************************************)
AURA_PRESETS ==
  [conservative |-> [TES |-> 85, VTR |-> 200, PAI |-> 90],
   moderate     |-> [TES |-> 70, VTR |-> 150, PAI |-> 80],
   permissive   |-> [TES |-> 60, VTR |-> 120, PAI |-> 70],
   creative     |-> [TES |-> 65, VTR |-> 180, PAI |-> 75],
   medical      |-> [TES |-> 85, VTR |-> 200, PAI |-> 90]]

\* NaN, as a value that no number of the model equals; a comparison with
\* NaN is false.
NaN == 0 - 999999
Less(a, b) == a # NaN /\ b # NaN /\ a < b

\* A mutant of checkTES: the severity floor is 0.6 instead of 0.5.
checkTES_WrongFloor(metrics, thr) ==
  IF Less(metrics.TES, thr.TES)
  THEN <<[metric |-> "TES",
          message |-> <<"Trust Entropy Score", metrics.TES, "below threshold", thr.TES>>,
          suggestion |-> "Reduce unnecessary complexity. Focus on essential elements only.",
          severity |-> IF Less(metrics.TES, 60) THEN "high" ELSE "medium"]>>
  ELSE <<>>

\* Check TES: the warnings it pushes.
checkTES(metrics, thr) ==
  IF Less(metrics.TES, thr.TES)
  THEN <<[metric |-> "TES",
          message |-> <<"Trust Entropy Score", metrics.TES, "below threshold", thr.TES>>,
          suggestion |-> "Reduce unnecessary complexity. Focus on essential elements only.",
          severity |-> IF Less(metrics.TES, 50) THEN "high" ELSE "medium"]>>
  ELSE <<>>

\* A mutant of checkVTR: a value equal to its threshold fails.
checkVTR_Inclusive(metrics, thr) ==
  IF Less(metrics.VTR, thr.VTR) \/ metrics.VTR = thr.VTR
  THEN <<[metric |-> "VTR",
          message |-> <<"Value-Transfer Ratio", metrics.VTR, "below threshold", thr.VTR>>,
          suggestion |-> "Increase value offered. Teach skills rather than doing work.",
          severity |-> IF Less(metrics.VTR, 100) THEN "high" ELSE "medium"]>>
  ELSE <<>>

\* Check VTR: the warnings it pushes.
checkVTR(metrics, thr) ==
  IF Less(metrics.VTR, thr.VTR)
  THEN <<[metric |-> "VTR",
          message |-> <<"Value-Transfer Ratio", metrics.VTR, "below threshold", thr.VTR>>,
          suggestion |-> "Increase value offered. Teach skills rather than doing work.",
          severity |-> IF Less(metrics.VTR, 100) THEN "high" ELSE "medium"]>>
  ELSE <<>>

\* A mutant of checkPAI: the warning names the wrong metric.
checkPAI_WrongMetric(metrics, thr) ==
  IF Less(metrics.PAI, thr.PAI)
  THEN <<[metric |-> "VTR",
          message |-> <<"Purpose Alignment Index", metrics.PAI, "below threshold", thr.PAI>>,
          suggestion |-> "Stay focused on stated purpose. Remove tangential elements.",
          severity |-> IF Less(metrics.PAI, 60) THEN "high" ELSE "medium"]>>
  ELSE <<>>

\* Check PAI: the warnings it pushes.
checkPAI(metrics, thr) ==
  IF Less(metrics.PAI, thr.PAI)
  THEN <<[metric |-> "PAI",
          message |-> <<"Purpose Alignment Index", metrics.PAI, "below threshold", thr.PAI>>,
          suggestion |-> "Stay focused on stated purpose. Remove tangential elements.",
          severity |-> IF Less(metrics.PAI, 60) THEN "high" ELSE "medium"]>>
  ELSE <<>>

\* A mutant of validateAURA: valid is decided by TES alone.
validateAURA_ValidFromTES(metrics, thr, clock) ==
  LET warnings == checkTES(metrics, thr) \o checkVTR(metrics, thr) \o checkPAI(metrics, thr)
  IN [TES |-> metrics.TES, VTR |-> metrics.VTR, PAI |-> metrics.PAI,
      valid |-> ~Less(metrics.TES, thr.TES),
      warnings |-> warnings,
      timestamp |-> clock]

validateAURA(metrics, thr, clock) ==
  LET warnings == checkTES(metrics, thr) \o checkVTR(metrics, thr) \o checkPAI(metrics, thr)
  IN [TES |-> metrics.TES, VTR |-> metrics.VTR, PAI |-> metrics.PAI,
      valid |-> Len(warnings) = 0,
      warnings |-> warnings,
      timestamp |-> clock]

(***************************************************************************)
(* Vector inversion and the decision filter.  A string is the sequence of  *)
(* its characters.                                                         *)
(***************************************************************************)
\* request.split(' ')
RECURSIVE SplitSpace(_)
SplitSpace(s) ==
  IF s = <<>> THEN << <<>> >>
  ELSE LET rest == SplitSpace(Tail(s))
       IN IF Head(s) = " "
          THEN << <<>> >> \o rest
          ELSE << <<Head(s)>> \o rest[1] >> \o Tail(rest)

\* words.join(' ')
RECURSIVE JoinSpace(_)
JoinSpace(words) ==
  IF words = <<>> THEN <<>>
  ELSE IF Len(words) = 1 THEN words[1]
  ELSE words[1] \o <<" ">> \o JoinSpace(Tail(words))

extractIntent(req) ==
  LET all == SplitSpace(req)
      words == SubSeq(all, 1, IF Len(all) < 10 THEN Len(all) ELSE 10)
  IN JoinSpace(words) \o (IF Len(all) > 10 THEN <<".", ".", ".">> ELSE <<>>)

\* A mutant of vectorInversion: the alternative is validated against the
\* conservative preset.
vectorInversion_Conservative(failedRequest, failedMetric, context, clock) ==
  LET intent == extractIntent(failedRequest)
  IN [originalIntent |-> intent,
      failedMetric |-> failedMetric,
      failureReason |-> "",
      invertedSolution |-> <<"", intent>>,
      newMetrics |->
        validateAURA([TES |-> IF failedMetric = "TES" THEN 85 ELSE 75,
                      VTR |-> IF failedMetric = "VTR" THEN 200 ELSE 180,
                      PAI |-> IF failedMetric = "PAI" THEN 90 ELSE 85],
                     AURA_PRESETS.conservative, clock)]

vectorInversion(failedRequest, failedMetric, context, clock) ==
  LET intent == extractIntent(failedRequest)
      failureReason ==
        CASE failedMetric = "TES" -> "Creates unnecessary complexity and friction"
          [] failedMetric = "VTR" -> "Creates dependency rather than empowerment"
          [] failedMetric = "PAI" -> "Diverges from stated purpose"
      invertedSolution ==
        CASE failedMetric = "TES" -> <<"Simplified approach", intent>>
          [] failedMetric = "VTR" -> <<"Empowering approach", intent>>
          [] failedMetric = "PAI" -> <<"Realigned approach", intent>>
      newMetrics ==
        validateAURA([TES |-> IF failedMetric = "TES" THEN 85 ELSE 75,
                      VTR |-> IF failedMetric = "VTR" THEN 200 ELSE 180,
                      PAI |-> IF failedMetric = "PAI" THEN 90 ELSE 85],
                     AURA_PRESETS.moderate, clock)
  IN [originalIntent |-> intent,
      failedMetric |-> failedMetric,
      failureReason |-> failureReason,
      invertedSolution |-> invertedSolution,
      newMetrics |-> newMetrics]

\* Array.prototype.sort with (a, b) => b.gap - a.gap: stable, largest gap first.
\* A mutant of InsertByGap: an equal gap goes in front (the sort is not stable).
RECURSIVE InsertByGap_Unstable(_, _)
InsertByGap_Unstable(s, x) ==
  IF s = <<>> THEN <<x>>
  ELSE IF x.gap >= Head(s).gap THEN <<x>> \o s
  ELSE <<Head(s)>> \o InsertByGap_Unstable(Tail(s), x)

RECURSIVE InsertByGap(_, _)
InsertByGap(s, x) ==
  IF s = <<>> THEN <<x>>
  ELSE IF x.gap > Head(s).gap THEN <<x>> \o s
  ELSE <<Head(s)>> \o InsertByGap(Tail(s), x)

RECURSIVE SortByGap(_)
SortByGap(s) ==
  IF s = <<>> THEN <<>>
  ELSE InsertByGap(SortByGap(SubSeq(s, 1, Len(s) - 1)), s[Len(s)])

\* A mutant of filterDecision: a failing decision is returned without an
\* inversion.
filterDecision_BareRefusal(action, estimatedMetrics, thr, clock) ==
  LET metrics == validateAURA(estimatedMetrics, thr, clock)
  IN [action |-> action, metrics |-> metrics, passed |-> metrics.valid,
      inversion |-> <<>>]

\* An absent inversion is <<>>, a present one <<inversion>>.  The gaps are
\* differences of the real values of the arguments.
filterDecision(action, estimatedMetrics, thr, clock) ==
  LET metrics == validateAURA(estimatedMetrics, thr, clock)
      failures ==
        (IF Less(metrics.TES, thr.TES)
           THEN <<[metric |-> "TES", gap |-> thr.TES - metrics.TES]>> ELSE <<>>)
        \o (IF Less(metrics.VTR, thr.VTR)
           THEN <<[metric |-> "VTR", gap |-> thr.VTR - metrics.VTR]>> ELSE <<>>)
        \o (IF Less(metrics.PAI, thr.PAI)
           THEN <<[metric |-> "PAI", gap |-> thr.PAI - metrics.PAI]>> ELSE <<>>)
      worstFailure == SortByGap(failures)[1]
  IN IF metrics.valid
     THEN [action |-> action, metrics |-> metrics, passed |-> TRUE,
           inversion |-> <<>>]
     ELSE [action |-> action, metrics |-> metrics, passed |-> FALSE,
           inversion |-> <<vectorInversion(action, worstFailure.metric, <<>>, clock)>>]

(***************************************************************************)
(* The streak analyzer's callers: a list of event timestamps grows and is  *)
(* reordered, and the streak is derived from it on every change.           *)
(***************************************************************************)
\* No debounced or throttled function has been made, and no timer is set.
TimersIdle ==
  /\ wrapper = [kind |-> "none", delay |-> 0]
  /\ timers = {}
  /\ timeoutId = 0
  /\ inThrottle = FALSE
  /\ trace = <<>>

\* No page is mounted.
SessionIdle ==
  /\ TimersIdle
  /\ page = "none"
  /\ items = <<>>
  /\ selected = <<>>
  /\ ui = <<>>
  /\ history = <<>>
  /\ localStorage = <<>>
  /\ dateNow = 0

\* No metric formula has been called, and the module is as loaded.
NoCall == [fn |-> "none"]
Idle ==
  /\ SessionIdle
  /\ metricCall = NoCall
  /\ metricOut = <<>>
  /\ presets = AURA_PRESETS
  /\ heap = 0
  /\ results = <<>>

StampHours == {1, 22}
Stamps == {d * MsPerDay + hr * MsPerHour : d \in 0..MaxDay, hr \in StampHours}
Clocks == {(MaxDay - 1) * MsPerDay + hr * MsPerHour : hr \in {0, 23}}

InitStreak ==
  /\ host \in Hosts
  /\ now \in Clocks
  /\ timestamps = <<>>
  /\ streak = calculateStreak(host, now, timestamps)
  /\ request = <<>>
  /\ estimated = [TES |-> 0, VTR |-> 0, PAI |-> 0]
  /\ thresholds = [TES |-> 0, VTR |-> 0, PAI |-> 0]
  /\ aura = <<>>
  /\ decision = <<>>
  /\ inverted = <<>>
  /\ dates = <<>>
  /\ Idle

Record(t) ==
  /\ Len(timestamps) < MaxLen
  /\ timestamps' = Append(timestamps, t)
  /\ streak' = calculateStreak(host, now, timestamps')
  /\ UNCHANGED <<host, now>>
  /\ UNCHANGED auraVars
  /\ UNCHANGED otherVars

Reorder(i) ==
  /\ i < Len(timestamps)
  /\ timestamps[i] # timestamps[i + 1]
  /\ timestamps' = [timestamps EXCEPT ![i] = timestamps[i + 1],
                                      ![i + 1] = timestamps[i]]
  /\ streak' = calculateStreak(host, now, timestamps')
  /\ UNCHANGED <<host, now>>
  /\ UNCHANGED auraVars
  /\ UNCHANGED otherVars

NextStreak ==
  \/ \E t \in Stamps : Record(t)
  \/ \E i \in 1..MaxLen : Reorder(i)

SpecStreak == InitStreak /\ [][NextStreak]_vars

(***************************************************************************)
(* The date helpers' callers: one timestamp is classified against the      *)
(* clock, and the streak of the list that holds just that timestamp is     *)
(* derived.                                                                *)
(***************************************************************************)
InitDates ==
  /\ host \in Hosts
  /\ now \in Clocks
  /\ timestamps \in {<<t>> : t \in Stamps}
  /\ streak = calculateStreak(host, now, timestamps)
  /\ request = <<>>
  /\ estimated = [TES |-> 0, VTR |-> 0, PAI |-> 0]
  /\ thresholds = [TES |-> 0, VTR |-> 0, PAI |-> 0]
  /\ aura = <<>>
  /\ decision = <<>>
  /\ inverted = <<>>
  /\ dates = <<>>
  /\ Idle

Classify ==
  /\ dates = <<>>
  /\ dates' = <<[timestamp |-> timestamps[1],
                 isToday |-> isToday(host, now, timestamps[1]),
                 isYesterday |-> isYesterday(host, now, timestamps[1]),
                 dateKey |-> getDateKey(timestamps[1])]>>
  /\ UNCHANGED streakVars
  /\ UNCHANGED auraVars
  /\ UNCHANGED metricVars
  /\ UNCHANGED frameVars
  /\ UNCHANGED <<sessionVars, timerVars>>

NextDates == Classify

SpecDates == InitDates /\ [][NextDates]_vars

(***************************************************************************)
(* The AURA evaluator's callers: a metric triple, a threshold triple and a *)
(* request are given; the triple is validated, or filtered as a decision.  *)
(***************************************************************************)
TESValues == {40, 49, 50, 59, 60, 69, 70, 85}
VTRValues == {90, 99, 100, 149, 150, 180, 200}
PAIValues == {50, 59, 60, 79, 80, 90}
MetricTriples == [TES : TESValues, VTR : VTRValues, PAI : PAIValues]

\* The presets, and two threshold triples a caller may pass that are none.
ThresholdTriples ==
  {AURA_PRESETS[p] : p \in DOMAIN AURA_PRESETS}
    \cup {[TES |-> 45, VTR |-> 95, PAI |-> 55], [TES |-> 90, VTR |-> 250, PAI |-> 95]}

RECURSIVE Words(_)
Words(k) == IF k = 0 THEN <<>> ELSE IF k = 1 THEN <<"a">> ELSE <<"a", " ">> \o Words(k - 1)
Requests == {Words(1), Words(11)}

InitAura ==
  /\ host \in {h \in Hosts : h.name = "UTC"}
  /\ now \in Clocks
  /\ timestamps = <<>>
  /\ streak = calculateStreak(host, now, timestamps)
  /\ request \in Requests
  /\ estimated \in MetricTriples
  /\ thresholds \in ThresholdTriples
  /\ aura = <<>>
  /\ decision = <<>>
  /\ inverted = <<>>
  /\ dates = <<>>
  /\ Idle

\* A caller validates the metric triple.
Validate ==
  /\ aura = <<>>
  /\ aura' = <<validateAURA(estimated, thresholds, now)>>
  /\ UNCHANGED <<request, estimated, thresholds, decision, inverted>>
  /\ UNCHANGED streakVars
  /\ UNCHANGED otherVars

\* A caller filters the request as a decision.
Filter ==
  /\ decision = <<>>
  /\ decision' = <<filterDecision(request, estimated, thresholds, now)>>
  /\ UNCHANGED <<request, estimated, thresholds, aura, inverted>>
  /\ UNCHANGED streakVars
  /\ UNCHANGED otherVars

\* A caller inverts the request for a metric it names.
Invert(failedMetric, context) ==
  /\ inverted = <<>>
  /\ inverted' = <<vectorInversion(request, failedMetric, context, now)>>
  /\ UNCHANGED <<request, estimated, thresholds, aura, decision>>
  /\ UNCHANGED streakVars
  /\ UNCHANGED otherVars

Contexts == {<<>>, <<"c">>}

NextAura ==
  \/ Validate
  \/ Filter
  \/ \E failedMetric \in {"TES", "VTR", "PAI"}, context \in Contexts :
        Invert(failedMetric, context)

SpecAura == InitAura /\ [][NextAura]_vars

(***************************************************************************)
(* vectorInversion's callers, for requests of up to MaxWords words that    *)
(* are separated by one space, by two spaces or by a tab, with or without  *)
(* a leading space.                                                        *)
(***************************************************************************)
RECURSIVE WordsSep(_, _)
WordsSep(k, sep) ==
  IF k = 0 THEN <<>>
  ELSE IF k = 1 THEN <<"a">>
  ELSE <<"a">> \o sep \o WordsSep(k - 1, sep)

IntentRequests ==
  {lead \o WordsSep(k, sep) :
     lead \in {<<>>, <<" ">>},
     k \in 0..MaxWords,
     sep \in {<<" ">>, <<" ", " ">>, <<"\t">>}}

InitIntent ==
  /\ host \in {h \in Hosts : h.name = "UTC"}
  /\ now \in Clocks
  /\ timestamps = <<>>
  /\ streak = calculateStreak(host, now, timestamps)
  /\ request \in IntentRequests
  /\ estimated = [TES |-> 0, VTR |-> 0, PAI |-> 0]
  /\ thresholds = AURA_PRESETS.moderate
  /\ aura = <<>>
  /\ decision = <<>>
  /\ inverted = <<>>
  /\ dates = <<>>
  /\ Idle

NextIntent ==
  \E failedMetric \in {"TES", "VTR", "PAI"}, context \in Contexts :
    Invert(failedMetric, context)

SpecIntent == InitIntent /\ [][NextIntent]_vars

(***************************************************************************)
(* The metric formulas.  A parameter documented as 0-1 is in hundredths,   *)
(* as the results are; counts and skillsTransferred are plain numbers.     *)
(* The formulas are computed exactly, as fractions, and rounded as         *)
(* Math.round(x * 100) does; the parameter sets below keep away from the   *)
(* values where the double nearest to x * 100 lies on the other side of a  *)
(* half than x * 100 itself.                                               *)
(***************************************************************************)
\* Math.round(x * 100) for the fraction x = numer / denom >= 0, denom > 0.
Round2(numer, denom) == (200 * numer + denom) \div (2 * denom)

\* necessaryRatio - frictionPenalty + clarityBonus is numer / (1000 t).
calculateTES(params) ==
  LET t == params.totalElements
      numer == 1000 * params.essentialElements
                 - 3 * params.anxietyInduced * t + 2 * params.clarityScore * t
  IN IF t = 0 THEN 100
     ELSE IF numer < 0 THEN 0
     ELSE IF numer > 1000 * t THEN 100
     ELSE Round2(numer, 1000 * t)

\* A mutant of calculateVTR: nothing captured is counted as one unit
\* captured.
calculateVTR_CapturedAtLeastOne(params) ==
  LET c == IF params.valueCaptured = 0 THEN 1 ELSE params.valueCaptured
  IN Round2(200 * params.valueOffered + 10 * params.skillsTransferred * c
              + params.autonomyPreserved * c,
            200 * c)

\* baseRatio + skillBonus + autonomyBonus is the fraction below.
calculateVTR(params) ==
  LET c == params.valueCaptured
  IN IF c = 0 THEN 1000
     ELSE Round2(200 * params.valueOffered + 10 * params.skillsTransferred * c
                   + params.autonomyPreserved * c,
                 200 * c)

calculatePAI(params) ==
  IF Len(params.actionElements) = 0 THEN 100
  ELSE Round2(Len(params.alignedElements), Len(params.actionElements))

\* SRS and LRS, as <<numerator, denominator>>.
reliability(actions) ==
  IF actions.total > 0 THEN <<actions.succeeded, actions.total>> ELSE <<1, 2>>

\* EL is elNumer / (2 d) and G is gNumer / (1000 d), d the product of the
\* two reliabilities' denominators; eta = 1.0 and theta = 0.8.
calculateEarnedLight(params) ==
  LET SRS == reliability(params.recentActions)
      LRS == reliability(params.historicalActions)
      d == SRS[2] * LRS[2]
      elNumer == SRS[1] * LRS[2] + LRS[1] * SRS[2]
      maxGovernance ==
        IF 100 * elNumer - 2 * params.tau * d > 0
        THEN 5 * (100 * elNumer - 2 * params.tau * d) ELSE 0
      influenceConsent ==
        (10 * params.influence - 8 * (100 - params.consent)) * d
      gNumer == IF maxGovernance < influenceConsent
                THEN maxGovernance ELSE influenceConsent
  IN [shortTermReliability |-> Round2(SRS[1], SRS[2]),
      longTermReliability |-> Round2(LRS[1], LRS[2]),
      earnedLight |-> Round2(elNumer, 2 * d),
      governanceCapacity |-> Round2(IF gNumer > 0 THEN gNumer ELSE 0, 1000 * d),
      influence |-> params.influence,
      consent |-> params.consent]

(***************************************************************************)
(* The metric formulas' callers: one call of one formula.                  *)
(***************************************************************************)
UnitScores == {0, 50, 100}
TESParams ==
  [totalElements : {0, 1, 2, 4}, essentialElements : {0, 1, 3},
   clarityScore : UnitScores, anxietyInduced : UnitScores]
VTRParams ==
  [valueOffered : {0, 1, 3}, valueCaptured : {0, 1, 2, 4},
   skillsTransferred : {0, 5, 10}, autonomyPreserved : UnitScores]
ElementLists == {[i \in 1..n |-> "e"] : n \in 0..MaxLen}
PAIParams ==
  [statedPurpose : {"p"}, actionElements : ElementLists,
   alignedElements : ElementLists]
Tallies ==
  {[succeeded |-> 0, total |-> 0], [succeeded |-> 0, total |-> 1],
   [succeeded |-> 1, total |-> 1], [succeeded |-> 1, total |-> 2],
   [succeeded |-> 2, total |-> 2], [succeeded |-> 3, total |-> 4]}
EarnedLightParams ==
  [recentActions : Tallies, historicalActions : Tallies,
   influence : UnitScores, consent : UnitScores, tau : {0, 10, 50}]

MetricCalls ==
  {[fn |-> "calculateTES", params |-> q] : q \in TESParams}
    \cup {[fn |-> "calculateVTR", params |-> q] : q \in VTRParams}
    \cup {[fn |-> "calculatePAI", params |-> q] : q \in PAIParams}
    \cup {[fn |-> "calculateEarnedLight", params |-> q] : q \in EarnedLightParams}

InitMetrics ==
  /\ host \in {h \in Hosts : h.name = "UTC"}
  /\ now \in Clocks
  /\ timestamps = <<>>
  /\ streak = calculateStreak(host, now, timestamps)
  /\ request = <<>>
  /\ estimated = [TES |-> 0, VTR |-> 0, PAI |-> 0]
  /\ thresholds = AURA_PRESETS.moderate
  /\ aura = <<>>
  /\ decision = <<>>
  /\ inverted = <<>>
  /\ dates = <<>>
  /\ SessionIdle
  /\ metricCall \in MetricCalls
  /\ metricOut = <<>>
  /\ presets = AURA_PRESETS
  /\ heap = 0
  /\ results = <<>>

Returns(value) ==
  /\ metricOut = <<>>
  /\ metricOut' = <<value>>
  /\ UNCHANGED metricCall
  /\ UNCHANGED streakVars
  /\ UNCHANGED auraVars
  /\ UNCHANGED dates
  /\ UNCHANGED frameVars
  /\ UNCHANGED <<sessionVars, timerVars>>

CallTES ==
  /\ metricCall.fn = "calculateTES"
  /\ Returns(calculateTES(metricCall.params))

CallVTR ==
  /\ metricCall.fn = "calculateVTR"
  /\ Returns(calculateVTR(metricCall.params))

CallPAI ==
  /\ metricCall.fn = "calculatePAI"
  /\ Returns(calculatePAI(metricCall.params))

CallEarnedLight ==
  /\ metricCall.fn = "calculateEarnedLight"
  /\ Returns(calculateEarnedLight(metricCall.params))

NextMetrics ==
  \/ CallTES
  \/ CallVTR
  \/ CallPAI
  \/ CallEarnedLight

SpecMetrics == InitMetrics /\ [][NextMetrics]_vars

(***************************************************************************)
(* Callers of validateAURA, filterDecision, vectorInversion and            *)
(* calculateStreak that share their arguments: any sequence of up to       *)
(* MaxCalls calls on one metric triple, one threshold triple (an entry of  *)
(* AURA_PRESETS) and one timestamp list.  presets is AURA_PRESETS as it    *)
(* is at run time, heap counts the result objects created so far, and      *)
(* results lists what the calls returned, each with the identity of the    *)
(* returned object.                                                        *)
(***************************************************************************)
\* A mutant of timestampsAfterSort: the argument itself is sorted.
timestampsAfterSort_InPlace(ts) == SortDesc(ts)

\* The caller's array after [...timestamps].sort(...): the copy is sorted.
timestampsAfterSort(ts) == ts

FrameStamps == {d * MsPerDay + MsPerHour : d \in (MaxDay - 2)..(MaxDay - 1)}
FrameLists ==
  {<<>>} \cup {<<t>> : t \in FrameStamps}
         \cup {<<t, u>> : t \in FrameStamps, u \in FrameStamps}
FrameTriples ==
  {[TES |-> 85, VTR |-> 200, PAI |-> 90], [TES |-> 69, VTR |-> 149, PAI |-> 80]}

InitFrame ==
  /\ host \in {h \in Hosts : h.name = "UTC"}
  /\ now = (MaxDay - 1) * MsPerDay
  /\ timestamps \in FrameLists
  /\ streak = calculateStreak(host, now, <<>>)
  /\ request = Words(1)
  /\ estimated \in FrameTriples
  /\ presets = AURA_PRESETS
  /\ thresholds \in {presets.moderate, presets.conservative}
  /\ aura = <<>>
  /\ decision = <<>>
  /\ inverted = <<>>
  /\ dates = <<>>
  /\ SessionIdle
  /\ metricCall = NoCall
  /\ metricOut = <<>>
  /\ heap = 0
  /\ results = <<>>

\* A call returns value in a new object, the last of the n it creates.
ReturnsNew(fn, value, n) ==
  /\ Len(results) < MaxCalls
  /\ heap' = heap + n
  /\ results' = Append(results, [fn |-> fn, ref |-> heap + n, value |-> value])
  /\ UNCHANGED <<host, now, streak, request, estimated, thresholds>>
  /\ UNCHANGED <<aura, decision, inverted, dates, presets>>
  /\ UNCHANGED metricVars
  /\ UNCHANGED <<sessionVars, timerVars>>

StreakCall ==
  /\ ReturnsNew("calculateStreak", calculateStreak(host, now, timestamps), 1)
  /\ timestamps' = timestampsAfterSort(timestamps)

ValidateCall ==
  /\ ReturnsNew("validateAURA", validateAURA(estimated, thresholds, now), 1)
  /\ UNCHANGED timestamps

\* metrics and the decision, and with an inversion its newMetrics and the
\* inversion.
FilterCall ==
  LET d == filterDecision(request, estimated, thresholds, now)
  IN /\ ReturnsNew("filterDecision", d, IF d.passed THEN 2 ELSE 4)
     /\ UNCHANGED timestamps

InvertCall(failedMetric, context) ==
  /\ ReturnsNew("vectorInversion",
                vectorInversion(request, failedMetric, context, now), 2)
  /\ UNCHANGED timestamps

NextFrame ==
  \/ StreakCall
  \/ ValidateCall
  \/ FilterCall
  \/ \E failedMetric \in {"TES", "VTR", "PAI"}, context \in Contexts :
       InvertCall(failedMetric, context)

SpecFrame == InitFrame /\ [][NextFrame]_vars

(***************************************************************************)
(* Callers that pass a value that is not a number of the domain: a metric  *)
(* that is NaN, a timestamp that is NaN or infinite (NaN stands for all    *)
(* three, which new Date treats alike).  A call returns a value or raises. *)
(***************************************************************************)
Returned(value) == [raised |-> FALSE, value |-> value]
Raised(error) == [raised |-> TRUE, value |-> error]

\* No statement of validateAURA throws for numbers.
validateAURAOutcome(metrics, thr, clock) ==
  Returned(validateAURA(metrics, thr, clock))

\* sorted.map(t => getDateKey(t)) reaches every element, and toISOString
\* throws a RangeError for an invalid date.
calculateStreakOutcome(h, clock, ts) ==
  IF Len(ts) = 0 THEN Returned(calculateStreak(h, clock, ts))
  ELSE IF \E i \in 1..Len(ts) : ts[i] = NaN THEN Raised("RangeError")
  ELSE Returned(calculateStreak(h, clock, ts))

MalformedMetrics ==
  [TES : {NaN, 40, 85}, VTR : {NaN, 90, 200}, PAI : {NaN, 50, 90}]
MalformedStamps == FrameStamps \cup {NaN}
MalformedLists ==
  {<<>>} \cup {<<t>> : t \in MalformedStamps}
         \cup {<<t, u>> : t \in MalformedStamps, u \in MalformedStamps}
MalformedCalls ==
  {[fn |-> "validateAURA", params |-> [metrics |-> m, thresholds |-> t]] :
     m \in MalformedMetrics,
     t \in {AURA_PRESETS.moderate, AURA_PRESETS.conservative}}
    \cup {[fn |-> "calculateStreak", params |-> [timestamps |-> ts]] :
            ts \in MalformedLists}

InitMalformed ==
  /\ host \in {h \in Hosts : h.name = "UTC"}
  /\ now \in Clocks
  /\ timestamps = <<>>
  /\ streak = calculateStreak(host, now, timestamps)
  /\ request = <<>>
  /\ estimated = [TES |-> 0, VTR |-> 0, PAI |-> 0]
  /\ thresholds = AURA_PRESETS.moderate
  /\ aura = <<>>
  /\ decision = <<>>
  /\ inverted = <<>>
  /\ dates = <<>>
  /\ SessionIdle
  /\ metricCall \in MalformedCalls
  /\ metricOut = <<>>
  /\ presets = AURA_PRESETS
  /\ heap = 0
  /\ results = <<>>

ValidateMalformed ==
  /\ metricCall.fn = "validateAURA"
  /\ Returns(validateAURAOutcome(metricCall.params.metrics,
                                 metricCall.params.thresholds, now))

StreakMalformed ==
  /\ metricCall.fn = "calculateStreak"
  /\ Returns(calculateStreakOutcome(host, now, metricCall.params.timestamps))

NextMalformed ==
  \/ ValidateMalformed
  \/ StreakMalformed

SpecMalformed == InitMalformed /\ [][NextMalformed]_vars

(***************************************************************************)
(* The pages.  A behaviour is one session of one page: page is the page    *)
(* that is mounted, items its list (shadows, scripts, anchors, syncs,      *)
(* dreams, decisions), selected its selectedShadow, selectedScript,        *)
(* selectedSync or activeDecision (<<>> for null), ui the flags of its     *)
(* components, history the collapse history, localStorage the browser's    *)
(* store (<<>> for a key that is not set, <<v>> for the JSON text of v)    *)
(* and dateNow the value of Date.now(), which has moved on by the time the *)
(* user reaches the next handler that reads it.  An optional property is   *)
(* <<>> when undefined and <<v>> otherwise.  Texts that no handler reads   *)
(* are left out of the entries.                                            *)
(***************************************************************************)
SessionStart == 100

StorageKeys ==
  [shadow |-> "cascade-shadows", scripts |-> "cascade-life-scripts",
   anchors |-> "cascade-temporal-anchors", sync |-> "cascade-synchronicities",
   dreams |-> "cascade-dreams", quantum |-> "cascade-quantum-decisions"]
HistoryKey == "cascade-collapse-history"
ResonanceKey == "cascade-resonance-logs"
ErrorsKey == "cascade-errors"
AllKeys ==
  {StorageKeys[k] : k \in DOMAIN StorageKeys} \cup {HistoryKey, ResonanceKey, ErrorsKey}
EmptyStorage == [k \in AllKeys |-> <<>>]

NoFlags ==
  [showCreate |-> FALSE, showEncounterForm |-> FALSE, editMode |-> FALSE,
   filter |-> "active", note |-> ""]

\* The lengths that the resonance log and the collapse history, and the
\* error log, are cut to.
LogLimit == 50
ErrorLimit == 10

\* A mutant of sliceFirst: nothing is cut.
sliceFirst_Whole(list, n) == list

\* list.slice(0, n)
sliceFirst(list, n) == SubSeq(list, 1, Min(n, Len(list)))

\* list.slice(-n)
sliceLast(list, n) == SubSeq(list, Max(1, Len(list) - n + 1), Len(list))

\* JSON.stringify leaves out a property whose value is undefined.
DropUndefined(e, optional) ==
  [k \in DOMAIN e \ {o \in optional \cap DOMAIN e : e[o] = <<>>} |-> e[k]]

\* A mutant of ReplaceById: every entry is replaced.
ReplaceById_Every(list, updated) == [i \in 1..Len(list) |-> updated]

\* list.map(x => x.id === updated.id ? updated : x)
ReplaceById(list, updated) ==
  [i \in 1..Len(list) |-> IF list[i].id = updated.id THEN updated ELSE list[i]]

setItem(key, json) == localStorage' = [localStorage EXCEPT ![key] = <<json>>]

MayStep == dateNow < SessionStart + MaxSteps

(***************************************************************************)
(* The shadow page.                                                        *)
(***************************************************************************)
Responses == {"projected", "suppressed", "acknowledged", "integrated"}

integrationDelta(response) ==
  CASE response = "projected" -> 0 - 2
    [] response = "suppressed" -> 0 - 1
    [] response = "acknowledged" -> 3
    [] response = "integrated" -> 5

\* A mutant of withEncounter: the level is not clamped.
withEncounter_Unclamped(shadow, response, reflection, t) ==
  [shadow EXCEPT
     !.encounters = Append(@, [id |-> <<"enc-", t>>, triggered |-> TRUE,
                               response |-> response, reflection |-> reflection,
                               timestamp |-> t]),
     !.integrationLevel = @ + integrationDelta(response)]

\* logEncounter's updated: the shadow with the new encounter.
withEncounter(shadow, response, reflection, t) ==
  [shadow EXCEPT
     !.encounters = Append(@, [id |-> <<"enc-", t>>, triggered |-> TRUE,
                               response |-> response, reflection |-> reflection,
                               timestamp |-> t]),
     !.integrationLevel =
        Max(0, IF @ + integrationDelta(response) < 100
               THEN @ + integrationDelta(response) ELSE 100)]

newShadow(name, t) ==
  [id |-> <<"shadow-", t>>, name |-> name, integrationLevel |-> 10,
   encounters |-> <<>>, createdAt |-> t]

stringifyShadows(list) ==
  [i \in 1..Len(list) |->
     [list[i] EXCEPT !.encounters =
        [j \in 1..Len(@) |-> DropUndefined(@[j], {"reflection"})]]]

\* A shadow of an earlier session: created at t, then k encounters with
\* one response, a millisecond apart.
RECURSIVE EarlierShadow(_, _, _)
EarlierShadow(t, response, k) ==
  IF k = 0 THEN newShadow("n", t)
  ELSE withEncounter(EarlierShadow(t, response, k - 1), response, <<>>, t + k)

saveShadow(name) ==
  /\ items' = <<newShadow(name, dateNow)>> \o items
  /\ setItem(StorageKeys.shadow, stringifyShadows(items'))
  /\ ui' = [ui EXCEPT !.showCreate = FALSE]
  /\ dateNow' = dateNow + 1
  /\ UNCHANGED <<page, selected, history>>

updateShadow(updated) ==
  /\ items' = ReplaceById(items, updated)
  /\ setItem(StorageKeys.shadow, stringifyShadows(items'))
  /\ selected' = <<updated>>
  /\ UNCHANGED <<page, history>>

SubmitShadow ==
  /\ page = "shadow"
  /\ ui.showCreate
  /\ MayStep
  /\ Len(items) < MaxEntries
  /\ saveShadow("n")
  /\ UNCHANGED <<streakVars, auraVars, dates, metricVars, frameVars, timerVars>>

LogEncounter(response, reflection) ==
  /\ page = "shadow"
  /\ ~ui.showCreate
  /\ selected # <<>>
  /\ ui.showEncounterForm
  /\ MayStep
  /\ updateShadow(withEncounter(selected[1], response, reflection, dateNow))
  /\ ui' = [ui EXCEPT !.showEncounterForm = FALSE]
  /\ dateNow' = dateNow + 1
  /\ UNCHANGED <<streakVars, auraVars, dates, metricVars, frameVars, timerVars>>

OpenEncounterForm ==
  /\ page = "shadow"
  /\ ~ui.showCreate
  /\ selected # <<>>
  /\ ~ui.showEncounterForm
  /\ ui' = [ui EXCEPT !.showEncounterForm = TRUE]
  /\ UNCHANGED <<page, items, selected, history, localStorage, dateNow>>
  /\ UNCHANGED <<streakVars, auraVars, dates, metricVars, frameVars, timerVars>>

(***************************************************************************)
(* The life-script page.  Strengths are in tenths.                         *)
(***************************************************************************)
newScript(original, strength, t) ==
  [id |-> <<"script-", t>>, original |-> original, rewritten |-> "",
   origin |-> <<>>, evidence |-> [supporting |-> <<>>, contradicting |-> <<>>],
   strength |-> strength, newStrength |-> 10, status |-> "identified",
   practiceCount |-> 0, lastPracticed |-> <<>>, createdAt |-> t]

withEvidence(script, type, text) ==
  [script EXCEPT !.evidence[type] = Append(@, text)]

withRewrite(script, rewritten) ==
  [script EXCEPT !.rewritten = rewritten, !.status = "rewriting",
                 !.newStrength = Max(@, 30)]

withPractice(script, t) ==
  [script EXCEPT !.practiceCount = @ + 1, !.lastPracticed = <<t>>,
                 !.strength = Max(10, @ - 2),
                 !.newStrength = IF @ + 3 < 100 THEN @ + 3 ELSE 100]

asIntegrated(script) ==
  [script EXCEPT !.status = "integrated", !.strength = 20, !.newStrength = 90]

stringifyScripts(list) ==
  [i \in 1..Len(list) |-> DropUndefined(list[i], {"origin", "lastPracticed"})]

\* A script of an earlier session: created at t, then practised k times.
RECURSIVE EarlierScript(_, _)
EarlierScript(t, k) ==
  IF k = 0 THEN newScript("o", 70, t)
  ELSE withPractice(EarlierScript(t, k - 1), t + k)

saveScript(original, strength) ==
  /\ items' = <<newScript(original, strength, dateNow)>> \o items
  /\ setItem(StorageKeys.scripts, stringifyScripts(items'))
  /\ ui' = [ui EXCEPT !.showCreate = FALSE]
  /\ dateNow' = dateNow + 1
  /\ UNCHANGED <<page, selected, history>>

updateScript(updated) ==
  /\ items' = ReplaceById(items, updated)
  /\ setItem(StorageKeys.scripts, stringifyScripts(items'))
  /\ selected' = <<updated>>
  /\ UNCHANGED <<page, history>>

InDetail(p) == page = p /\ ~ui.showCreate /\ selected # <<>>

SubmitScript ==
  /\ page = "scripts"
  /\ ui.showCreate
  /\ MayStep
  /\ Len(items) < MaxEntries
  /\ saveScript("o", 70)
  /\ UNCHANGED <<streakVars, auraVars, dates, metricVars, frameVars, timerVars>>

AddEvidence(type) ==
  /\ InDetail("scripts")
  /\ MayStep
  /\ updateScript(withEvidence(selected[1], type, "e"))
  /\ dateNow' = dateNow + 1
  /\ UNCHANGED ui
  /\ UNCHANGED <<streakVars, auraVars, dates, metricVars, frameVars, timerVars>>

EditRewrite ==
  /\ InDetail("scripts")
  /\ ~ui.editMode
  /\ ui' = [ui EXCEPT !.editMode = TRUE]
  /\ UNCHANGED <<page, items, selected, history, localStorage, dateNow>>
  /\ UNCHANGED <<streakVars, auraVars, dates, metricVars, frameVars, timerVars>>

SaveRewrite ==
  /\ InDetail("scripts")
  /\ ui.editMode
  /\ MayStep
  /\ updateScript(withRewrite(selected[1], "r"))
  /\ ui' = [ui EXCEPT !.editMode = FALSE]
  /\ dateNow' = dateNow + 1
  /\ UNCHANGED <<streakVars, auraVars, dates, metricVars, frameVars, timerVars>>

Practice ==
  /\ InDetail("scripts")
  /\ MayStep
  /\ updateScript(withPractice(selected[1], dateNow))
  /\ dateNow' = dateNow + 1
  /\ UNCHANGED ui
  /\ UNCHANGED <<streakVars, auraVars, dates, metricVars, frameVars, timerVars>>

MarkIntegrated ==
  /\ InDetail("scripts")
  /\ selected[1].status # "integrated"
  /\ selected[1].newStrength >= 70
  /\ MayStep
  /\ updateScript(asIntegrated(selected[1]))
  /\ dateNow' = dateNow + 1
  /\ UNCHANGED ui
  /\ UNCHANGED <<streakVars, auraVars, dates, metricVars, frameVars, timerVars>>

(***************************************************************************)
(* The temporal-anchor page.  currentAlignment is in tenths.  A time of    *)
(* this page is a day and the milliseconds of that day, since a horizon is *)
(* at least 30 days; the session is on the day SessionDay.                 *)
(***************************************************************************)
SessionDay == 30

Stamp(day, t) == [day |-> day, ms |-> t]

OnSessionDay(t) == Stamp(SessionDay, t)

\* Math.ceil((futureDate - Date.now()) / msPerDay) <= 0
Due(futureDate, t) ==
  \/ futureDate.day < t.day
  \/ futureDate.day = t.day /\ futureDate.ms <= t.ms

newAnchor(title, horizon, milestones, t) ==
  [id |-> <<"anchor-", t>>, title |-> title,
   futureDate |-> Stamp(t.day + horizon, t.ms), currentAlignment |-> 3,
   milestones |-> [i \in 1..milestones |->
                     [id |-> <<"ms-", t, i - 1>>, title |-> "m",
                      completed |-> FALSE, completedAt |-> <<>>]],
   status |-> "active", createdAt |-> t, lastReflection |-> <<>>]

withMilestoneToggled(anchor, milestoneId, t) ==
  [anchor EXCEPT !.milestones =
     [i \in 1..Len(anchor.milestones) |->
        LET m == anchor.milestones[i]
        IN IF m.id = milestoneId
           THEN [m EXCEPT !.completed = ~m.completed,
                          !.completedAt = IF ~m.completed THEN <<t>> ELSE <<>>]
           ELSE m]]

withAlignment(anchor, delta) ==
  [anchor EXCEPT !.currentAlignment =
     Max(0, IF @ + delta < 10 THEN @ + delta ELSE 10)]

stringifyAnchors(list) ==
  [i \in 1..Len(list) |->
     DropUndefined(
       [list[i] EXCEPT !.milestones =
          [j \in 1..Len(list[i].milestones) |->
             DropUndefined(list[i].milestones[j], {"completedAt"})]],
       {"lastReflection"})]

saveAnchor(title, horizon, milestones) ==
  /\ items' = <<newAnchor(title, horizon, milestones, OnSessionDay(dateNow))>> \o items
  /\ setItem(StorageKeys.anchors, stringifyAnchors(items'))
  /\ ui' = [ui EXCEPT !.showCreate = FALSE]
  /\ dateNow' = dateNow + 1
  /\ UNCHANGED <<page, selected, history>>

updateAnchor(updated) ==
  /\ items' = ReplaceById(items, updated)
  /\ setItem(StorageKeys.anchors, stringifyAnchors(items'))
  /\ UNCHANGED <<page, selected, history, ui>>

\* filteredAnchors: the cards that are on the page.
OnCard(i) ==
  /\ page = "anchors"
  /\ ~ui.showCreate
  /\ i \in 1..Len(items)
  /\ ui.filter = "all" \/ items[i].status = ui.filter

SubmitAnchor(milestones) ==
  /\ page = "anchors"
  /\ ui.showCreate
  /\ MayStep
  /\ Len(items) < MaxEntries
  /\ saveAnchor("a", 30, milestones)
  /\ UNCHANGED <<streakVars, auraVars, dates, metricVars, frameVars, timerVars>>

SetFilter(f) ==
  /\ page = "anchors"
  /\ ui.filter # f
  /\ ui' = [ui EXCEPT !.filter = f]
  /\ UNCHANGED <<page, items, selected, history, localStorage, dateNow>>
  /\ UNCHANGED <<streakVars, auraVars, dates, metricVars, frameVars, timerVars>>

ToggleMilestone(i, m) ==
  /\ OnCard(i)
  /\ m \in 1..Len(items[i].milestones)
  /\ MayStep
  /\ updateAnchor(withMilestoneToggled(items[i], items[i].milestones[m].id, OnSessionDay(dateNow)))
  /\ dateNow' = dateNow + 1
  /\ UNCHANGED <<streakVars, auraVars, dates, metricVars, frameVars, timerVars>>

AdjustAlignment(i, delta) ==
  /\ OnCard(i)
  /\ MayStep
  /\ updateAnchor(withAlignment(items[i], delta))
  /\ dateNow' = dateNow + 1
  /\ UNCHANGED <<streakVars, auraVars, dates, metricVars, frameVars, timerVars>>

\* daysUntil <= 0
MarkAchieved(i) ==
  /\ OnCard(i)
  /\ items[i].status = "active"
  /\ Due(items[i].futureDate, OnSessionDay(dateNow))
  /\ MayStep
  /\ updateAnchor([items[i] EXCEPT !.status = "achieved"])
  /\ dateNow' = dateNow + 1
  /\ UNCHANGED <<streakVars, auraVars, dates, metricVars, frameVars, timerVars>>

(***************************************************************************)
(* The synchronicity page and the dream page.  The patterns that both      *)
(* derive from the list are shown only and are not part of the model.      *)
(***************************************************************************)
newSync(title, tags, interpretation, t) ==
  [id |-> <<"sync-", t>>, title |-> title, significance |-> 5, tags |-> tags,
   interpretation |-> interpretation, timestamp |-> t]

stringifySyncs(list) ==
  [i \in 1..Len(list) |-> DropUndefined(list[i], {"interpretation"})]

saveSync(title, tags, interpretation) ==
  /\ items' = <<newSync(title, tags, interpretation, dateNow)>> \o items
  /\ setItem(StorageKeys.sync, stringifySyncs(items'))
  /\ ui' = [ui EXCEPT !.showCreate = FALSE]
  /\ dateNow' = dateNow + 1
  /\ UNCHANGED <<page, selected, history>>

SubmitSync(tags, interpretation) ==
  /\ page = "sync"
  /\ ui.showCreate
  /\ MayStep
  /\ Len(items) < MaxEntries
  /\ saveSync("s", tags, interpretation)
  /\ UNCHANGED <<streakVars, auraVars, dates, metricVars, frameVars, timerVars>>

\* DREAM_SYMBOLS has a meaning for every symbol of the form.
newDream(title, symbols, lucid, t) ==
  [id |-> <<"dream-", t>>, title |-> title, symbols |-> symbols,
   lucid |-> lucid, timestamp |-> t,
   interpretation |-> IF Len(symbols) > 0
                      THEN <<"Key themes: ", SubSeq(symbols, 1, Min(3, Len(symbols)))>>
                      ELSE <<>>]

stringifyDreams(list) == list

saveDream(title, symbols, lucid) ==
  /\ items' = <<newDream(title, symbols, lucid, dateNow)>> \o items
  /\ setItem(StorageKeys.dreams, stringifyDreams(items'))
  /\ ui' = [ui EXCEPT !.showCreate = FALSE]
  /\ dateNow' = dateNow + 1
  /\ UNCHANGED <<page, selected, history>>

SubmitDream(symbols, lucid) ==
  /\ page = "dreams"
  /\ ui.showCreate
  /\ MayStep
  /\ Len(items) < MaxEntries
  /\ saveDream("d", symbols, lucid)
  /\ UNCHANGED <<streakVars, auraVars, dates, metricVars, frameVars, timerVars>>

(***************************************************************************)
(* The quantum-decision page.  An amplitude is in thousandths, truncated,  *)
(* and a phase is <<i, n>> for 2 pi i / n.                                 *)
(***************************************************************************)
\* Math.sqrt, truncated.
Sqrt(n) == CHOOSE r \in 0..2000 : r * r <= n /\ n < (r + 1) * (r + 1)

RECURSIVE SumSq(_)
SumSq(states) ==
  IF states = <<>> THEN 0
  ELSE states[1].amplitude * states[1].amplitude + SumSq(Tail(states))

\* CreateDecisionForm.handleSubmit: an equal superposition of n options.
newStates(n, t) ==
  [i \in 1..n |-> [id |-> <<"state-", t, i - 1>>, option |-> <<"option", i>>,
                   amplitude |-> 1000000 \div Sqrt(1000000 * n),
                   phase |-> <<i - 1, n>>]]

newDecision(n, t) ==
  [id |-> <<"qd-", t>>, question |-> "q", states |-> newStates(n, t),
   collapsed |-> FALSE, collapsedTo |-> <<>>, collapseMethod |-> <<>>,
   collapsedAt |-> <<>>, createdAt |-> t]

\* adjustAmplitude: the adjusted states, normalized.
adjustAmplitude(states, id, delta) ==
  LET updated == [i \in 1..Len(states) |->
                    IF states[i].id = id
                    THEN [states[i] EXCEPT !.amplitude =
                            Max(100, IF @ + delta < 1000 THEN @ + delta ELSE 1000)]
                    ELSE states[i]]
      totalSq == SumSq(updated)
  IN [i \in 1..Len(updated) |->
        [updated[i] EXCEPT !.amplitude = (1000 * @) \div Sqrt(totalSq)]]

\* Resonance Collapse: the first state of the highest probability.
highest(states) ==
  states[CHOOSE i \in 1..Len(states) :
           /\ \A j \in 1..Len(states) : states[j].amplitude <= states[i].amplitude
           /\ \A j \in 1..(i - 1) : states[j].amplitude < states[i].amplitude]

stringifyDecisions(list) ==
  [i \in 1..Len(list) |->
     DropUndefined(list[i], {"collapsedTo", "collapseMethod", "collapsedAt"})]

saveDecision(n) ==
  /\ items' = <<newDecision(n, dateNow)>> \o items
  /\ setItem(StorageKeys.quantum, stringifyDecisions(items'))
  /\ selected' = <<newDecision(n, dateNow)>>
  /\ ui' = [ui EXCEPT !.showCreate = FALSE]
  /\ dateNow' = dateNow + 1
  /\ UNCHANGED <<page, history>>

updateStates(states) ==
  LET updated == [selected[1] EXCEPT !.states = states]
  IN /\ selected # <<>>
     /\ selected' = <<updated>>
     /\ items' = ReplaceById(items, updated)
     /\ setItem(StorageKeys.quantum, stringifyDecisions(items'))
     /\ UNCHANGED <<page, history, ui>>

collapseWavefunction(stateId, method) ==
  LET updated == [selected[1] EXCEPT !.collapsed = TRUE,
                                     !.collapsedTo = <<stateId>>,
                                     !.collapseMethod = <<method>>,
                                     !.collapsedAt = <<dateNow>>]
      collapsedState ==
        selected[1].states[CHOOSE i \in 1..Len(selected[1].states) :
                             selected[1].states[i].id = stateId]
      newHistory == [decisionId |-> updated.id, question |-> updated.question,
                     result |-> collapsedState.option, method |-> method,
                     satisfaction |-> 0, timestamp |-> dateNow]
  IN /\ selected # <<>>
     /\ \E i \in 1..Len(selected[1].states) : selected[1].states[i].id = stateId
     /\ selected' = <<updated>>
     /\ items' = ReplaceById(items, updated)
     /\ history' = sliceFirst(<<newHistory>> \o history, LogLimit)
     /\ localStorage' =
          [localStorage EXCEPT
             ![StorageKeys.quantum] = <<stringifyDecisions(items')>>,
             ![HistoryKey] = <<history'>>]
     /\ UNCHANGED <<page, ui>>

\* A mutant of InSuperposition: the adjusters and the collapse buttons stay.
InSuperposition_Always == InDetail("quantum")

\* AmplitudeAdjuster and the collapse buttons are rendered when !collapsed.
InSuperposition == InDetail("quantum") /\ ~selected[1].collapsed

SubmitDecision(n) ==
  /\ page = "quantum"
  /\ ui.showCreate
  /\ MayStep
  /\ Len(items) < MaxEntries
  /\ saveDecision(n)
  /\ UNCHANGED <<streakVars, auraVars, dates, metricVars, frameVars, timerVars>>

AdjustAmplitude(i, delta) ==
  /\ InSuperposition
  /\ i \in 1..Len(selected[1].states)
  /\ MayStep
  /\ updateStates(adjustAmplitude(selected[1].states, selected[1].states[i].id, delta))
  /\ dateNow' = dateNow + 1
  /\ UNCHANGED <<streakVars, auraVars, dates, metricVars, frameVars, timerVars>>

\* states[Math.floor(Math.random() * states.length)]
RandomCollapse(i) ==
  /\ InSuperposition
  /\ i \in 1..Len(selected[1].states)
  /\ MayStep
  /\ collapseWavefunction(selected[1].states[i].id, "random")
  /\ dateNow' = dateNow + 1
  /\ UNCHANGED <<streakVars, auraVars, dates, metricVars, frameVars, timerVars>>

ResonanceCollapse ==
  /\ InSuperposition
  /\ MayStep
  /\ collapseWavefunction(highest(selected[1].states).id, "resonance")
  /\ dateNow' = dateNow + 1
  /\ UNCHANGED <<streakVars, auraVars, dates, metricVars, frameVars, timerVars>>

(***************************************************************************)
(* Handlers that the pages share: the create form, the list, the detail.   *)
(***************************************************************************)
HasDetail == {"shadow", "scripts", "quantum"}

OpenCreate ==
  /\ page \in DOMAIN StorageKeys
  /\ ~ui.showCreate
  /\ selected = <<>>
  /\ ui' = [ui EXCEPT !.showCreate = TRUE]
  /\ UNCHANGED <<page, items, selected, history, localStorage, dateNow>>
  /\ UNCHANGED <<streakVars, auraVars, dates, metricVars, frameVars, timerVars>>

CancelCreate ==
  /\ page \in DOMAIN StorageKeys
  /\ ui.showCreate
  /\ ui' = [ui EXCEPT !.showCreate = FALSE]
  /\ UNCHANGED <<page, items, selected, history, localStorage, dateNow>>
  /\ UNCHANGED <<streakVars, auraVars, dates, metricVars, frameVars, timerVars>>

Select(i) ==
  /\ page \in HasDetail
  /\ ~ui.showCreate
  /\ selected = <<>>
  /\ i \in 1..Len(items)
  /\ page = "quantum" => i <= 10
  /\ selected' = <<items[i]>>
  /\ UNCHANGED <<page, items, ui, history, localStorage, dateNow>>
  /\ UNCHANGED <<streakVars, auraVars, dates, metricVars, frameVars, timerVars>>

\* The detail view is unmounted, and its flags go with it.
Close ==
  /\ page \in HasDetail
  /\ ~ui.showCreate
  /\ selected # <<>>
  /\ selected' = <<>>
  /\ ui' = NoFlags
  /\ UNCHANGED <<page, items, history, localStorage, dateNow>>
  /\ UNCHANGED <<streakVars, auraVars, dates, metricVars, frameVars, timerVars>>

(***************************************************************************)
(* A session: the page is mounted and has loaded what an earlier session   *)
(* stored.                                                                 *)
(***************************************************************************)
\* JSON.stringify of the list of a page.
stringify(p, list) ==
  CASE p = "shadow" -> stringifyShadows(list)
    [] p = "scripts" -> stringifyScripts(list)
    [] p = "anchors" -> stringifyAnchors(list)
    [] p = "sync" -> stringifySyncs(list)
    [] p = "dreams" -> stringifyDreams(list)
    [] p = "quantum" -> stringifyDecisions(list)

EarlierItems ==
  [shadow |-> {<<>>, <<EarlierShadow(1, "integrated", 19)>>,
               <<EarlierShadow(1, "projected", 4)>>},
   scripts |-> {<<>>, <<EarlierScript(1, 21)>>},
   anchors |-> {<<>>, <<newAnchor("a", 30, 1, Stamp(0, 1))>>},
   sync |-> {<<>>},
   dreams |-> {<<>>},
   quantum |-> {<<>>}]

InitPages ==
  /\ host \in {h \in Hosts : h.name = "UTC"}
  /\ now = (MaxDay - 1) * MsPerDay
  /\ timestamps = <<>>
  /\ streak = calculateStreak(host, now, timestamps)
  /\ request = <<>>
  /\ estimated = [TES |-> 0, VTR |-> 0, PAI |-> 0]
  /\ thresholds = AURA_PRESETS.moderate
  /\ aura = <<>>
  /\ decision = <<>>
  /\ inverted = <<>>
  /\ dates = <<>>
  /\ metricCall = NoCall
  /\ metricOut = <<>>
  /\ presets = AURA_PRESETS
  /\ heap = 0
  /\ results = <<>>
  /\ TimersIdle
  /\ page \in DOMAIN EarlierItems
  /\ items \in EarlierItems[page]
  /\ localStorage = [EmptyStorage EXCEPT ![StorageKeys[page]] =
                       IF items = <<>> THEN <<>> ELSE <<stringify(page, items)>>]
  /\ selected = <<>>
  /\ ui = NoFlags
  /\ history = <<>>
  /\ dateNow = SessionStart

NextPages ==
  \/ OpenCreate
  \/ CancelCreate
  \/ \E i \in 1..MaxEntries : Select(i)
  \/ Close
  \/ SubmitShadow
  \/ OpenEncounterForm
  \/ \E response \in Responses, reflection \in {<<>>, <<"r">>} :
       LogEncounter(response, reflection)
  \/ SubmitScript
  \/ \E type \in {"supporting", "contradicting"} : AddEvidence(type)
  \/ EditRewrite
  \/ SaveRewrite
  \/ Practice
  \/ MarkIntegrated
  \/ \E milestones \in 0..1 : SubmitAnchor(milestones)
  \/ \E f \in {"active", "achieved", "all"} : SetFilter(f)
  \/ \E i \in 1..MaxEntries : ToggleMilestone(i, 1)
  \/ \E i \in 1..MaxEntries, delta \in {0 - 1, 1} : AdjustAlignment(i, delta)
  \/ \E i \in 1..MaxEntries : MarkAchieved(i)
  \/ \E tags \in {<<>>, <<"t">>}, interpretation \in {<<>>, <<"i">>} :
       SubmitSync(tags, interpretation)
  \/ \E symbols \in {<<>>, <<"water">>}, lucid \in BOOLEAN : SubmitDream(symbols, lucid)
  \/ \E n \in 2..3 : SubmitDecision(n)
  \/ \E i \in 1..3, delta \in {0 - 100, 100} : AdjustAmplitude(i, delta)
  \/ \E i \in 1..3 : RandomCollapse(i)
  \/ ResonanceCollapse

SpecPages == InitPages /\ [][NextPages]_vars


(***************************************************************************)
(* The persisted logs: the resonance log of the resonance page, the        *)
(* collapse history of the quantum-decision page, and the error log of the *)
(* error boundary.  The field, the metrics and the earned light of a       *)
(* resonance log are the ones on the page, and are opaque here.            *)
(***************************************************************************)
newLog(note, t) ==
  [id |-> <<"res-", t>>, field |-> "field", aura |-> "auraMetrics",
   earnedLight |-> "earnedLight", note |-> IF note = "" THEN <<>> ELSE <<note>>,
   timestamp |-> t]

stringifyLogs(list) == [i \in 1..Len(list) |-> DropUndefined(list[i], {"note"})]

logResonance ==
  /\ items' = sliceFirst(<<newLog(ui.note, dateNow)>> \o items, LogLimit)
  /\ setItem(ResonanceKey, stringifyLogs(items'))
  /\ ui' = [ui EXCEPT !.note = ""]
  /\ dateNow' = dateNow + 1
  /\ UNCHANGED <<page, selected, history>>

SetNote(note) ==
  /\ page = "resonance"
  /\ ui.note # note
  /\ ui' = [ui EXCEPT !.note = note]
  /\ UNCHANGED <<page, items, selected, history, localStorage, dateNow>>
  /\ UNCHANGED <<streakVars, auraVars, dates, metricVars, frameVars, timerVars>>

LogResonance ==
  /\ page = "resonance"
  /\ MayStep
  /\ logResonance
  /\ UNCHANGED <<streakVars, auraVars, dates, metricVars, frameVars, timerVars>>

\* What getItem('cascade-errors') || '[]' parses to.
StoredErrors ==
  IF localStorage[ErrorsKey] = <<>> THEN <<>> ELSE localStorage[ErrorsKey][1]

componentDidCatch(message) ==
  LET errors == Append(StoredErrors,
                       [message |-> message, stack |-> "stack",
                        timestamp |-> dateNow, componentStack |-> "componentStack"])
  IN /\ setItem(ErrorsKey, sliceLast(errors, ErrorLimit))
     /\ dateNow' = dateNow + 1
     /\ UNCHANGED <<page, items, selected, ui, history>>

Catch(message) ==
  /\ page = "errors"
  /\ MayStep
  /\ componentDidCatch(message)
  /\ UNCHANGED <<streakVars, auraVars, dates, metricVars, frameVars, timerVars>>

\* What an earlier session left: n entries, a millisecond apart.
EarlierLogs(n) == [i \in 1..n |-> newLog("", n + 1 - i)]

EarlierHistory(n) ==
  [i \in 1..n |-> [decisionId |-> <<"qd-", n + 1 - i>>, question |-> "q",
                   result |-> <<"option", 1>>, method |-> "random",
                   satisfaction |-> 0, timestamp |-> n + 1 - i]]

EarlierErrors(n) ==
  [i \in 1..n |-> [message |-> "m", stack |-> "stack", timestamp |-> i,
                   componentStack |-> "componentStack"]]

EarlierLengths(limit) == {0, limit - 1, limit}

InitLogs ==
  /\ host \in {h \in Hosts : h.name = "UTC"}
  /\ now = (MaxDay - 1) * MsPerDay
  /\ timestamps = <<>>
  /\ streak = calculateStreak(host, now, timestamps)
  /\ request = <<>>
  /\ estimated = [TES |-> 0, VTR |-> 0, PAI |-> 0]
  /\ thresholds = AURA_PRESETS.moderate
  /\ aura = <<>>
  /\ decision = <<>>
  /\ inverted = <<>>
  /\ dates = <<>>
  /\ metricCall = NoCall
  /\ metricOut = <<>>
  /\ presets = AURA_PRESETS
  /\ heap = 0
  /\ results = <<>>
  /\ TimersIdle
  /\ page \in {"resonance", "quantum", "errors"}
  /\ selected = <<>>
  /\ ui = NoFlags
  /\ dateNow = SessionStart
  /\ \/ /\ page = "resonance"
        /\ \E n \in EarlierLengths(LogLimit) : items = EarlierLogs(n)
        /\ history = <<>>
        /\ localStorage = [EmptyStorage EXCEPT ![ResonanceKey] =
                             IF items = <<>> THEN <<>> ELSE <<stringifyLogs(items)>>]
     \/ /\ page = "quantum"
        /\ items = <<newDecision(2, LogLimit + 1)>>
        /\ \E n \in EarlierLengths(LogLimit) : history = EarlierHistory(n)
        /\ localStorage = [EmptyStorage EXCEPT
                             ![StorageKeys.quantum] = <<stringifyDecisions(items)>>,
                             ![HistoryKey] = IF history = <<>> THEN <<>> ELSE <<history>>]
     \/ /\ page = "errors"
        /\ items = <<>>
        /\ history = <<>>
        /\ \E n \in EarlierLengths(ErrorLimit) :
             localStorage = [EmptyStorage EXCEPT ![ErrorsKey] =
                               IF n = 0 THEN <<>> ELSE <<EarlierErrors(n)>>]

NextLogs ==
  \/ \E note \in {"", "n"} : SetNote(note)
  \/ LogResonance
  \/ \E message \in {"m", "e"} : Catch(message)
  \/ OpenCreate
  \/ CancelCreate
  \/ \E i \in 1..MaxEntries : Select(i)
  \/ Close
  \/ SubmitDecision(2)
  \/ \E i \in 1..2 : RandomCollapse(i)
  \/ ResonanceCollapse

SpecLogs == InitLogs /\ [][NextLogs]_vars


(***************************************************************************)
(* debounce and throttle (lib/utils.ts).  wrapper is the function that     *)
(* debounce(fn, delay) or throttle(fn, limit) returned; timers are the     *)
(* timers that are set and have not fired; trace is what happened: the     *)
(* calls of the wrapper, the invocations of fn and, for throttle, the      *)
(* timeouts.  Time is dateNow.  A timer fires when it is due, but what     *)
(* else happens at that instant may come before it.                        *)
(***************************************************************************)
Delays == 0..2
Args == {"a", "b"}

Calls == SelectSeq(trace, LAMBDA e : e.type = "call")

callEvent(args) ==
  [type |-> "call", at |-> dateNow, args |-> args, call |-> Len(Calls) + 1,
   sync |-> FALSE]

\* fn(...args), in the call of the wrapper (sync) or in a timer callback.
fnEvent(args, call, sync) ==
  [type |-> "fn", at |-> dateNow, args |-> args, call |-> call, sync |-> sync]

\* A mutant of clearTimeout: the timer stays.
clearTimeout_Ignored(id) == timers

\* clearTimeout(timeoutId); no timer has the id 0 of the unset timeoutId.
clearTimeout(id) == {t \in timers : t.id # id}

\* setTimeout(callback, delay) as the call-th call, after some were cleared.
setTimeout(pending, args, call) ==
  pending \cup {[id |-> Len(trace) + 1, due |-> dateNow + wrapper.delay,
                 args |-> args, call |-> call]}

\* The function that debounce returned.
debounced(args) ==
  /\ timers' = setTimeout(clearTimeout(timeoutId), args, Len(Calls) + 1)
  /\ timeoutId' = Len(trace) + 1
  /\ trace' = Append(trace, callEvent(args))
  /\ UNCHANGED inThrottle

\* A mutant of throttled: inThrottle is not set.
throttled_NoFlag(args) ==
  /\ trace' = trace \o <<callEvent(args), fnEvent(args, Len(Calls) + 1, TRUE)>>
  /\ inThrottle' = FALSE
  /\ timers' = setTimeout(timers, args, Len(Calls) + 1)
  /\ UNCHANGED timeoutId

\* The function that throttle returned.
throttled(args) ==
  /\ IF ~inThrottle
     THEN /\ trace' = trace \o <<callEvent(args), fnEvent(args, Len(Calls) + 1, TRUE)>>
          /\ inThrottle' = TRUE
          /\ timers' = setTimeout(timers, args, Len(Calls) + 1)
     ELSE /\ trace' = Append(trace, callEvent(args))
          /\ UNCHANGED <<inThrottle, timers>>
  /\ UNCHANGED timeoutId

IdleButTimers ==
  /\ UNCHANGED <<streakVars, auraVars, dates, metricVars, frameVars>>
  /\ UNCHANGED <<page, items, selected, ui, history, localStorage>>

CallWrapper(args) ==
  /\ wrapper.kind # "none"
  /\ Len(Calls) < MaxCalls
  /\ IF wrapper.kind = "debounce" THEN debounced(args) ELSE throttled(args)
  /\ UNCHANGED <<wrapper, dateNow>>
  /\ IdleButTimers

\* The callback of a timer that is due, the one that is due first.
Timeout ==
  \E t \in timers :
    /\ t.due <= dateNow
    /\ \A u \in timers : t.due < u.due \/ (t.due = u.due /\ t.id <= u.id)
    /\ timers' = timers \ {t}
    /\ IF wrapper.kind = "debounce"
       THEN /\ trace' = Append(trace, fnEvent(t.args, t.call, FALSE))
            /\ UNCHANGED inThrottle
       ELSE /\ inThrottle' = FALSE
            /\ trace' = Append(trace, [type |-> "timeout", at |-> dateNow,
                                        args |-> t.args, call |-> t.call,
                                        sync |-> FALSE])
    /\ UNCHANGED <<wrapper, timeoutId, dateNow>>
    /\ IdleButTimers

\* A millisecond passes, when no timer is due.
Tick ==
  /\ wrapper.kind # "none"
  /\ dateNow < MaxTime
  /\ \A t \in timers : t.due > dateNow
  /\ dateNow' = dateNow + 1
  /\ UNCHANGED <<wrapper, timers, timeoutId, inThrottle, trace>>
  /\ IdleButTimers

InitTimers ==
  /\ host \in {h \in Hosts : h.name = "UTC"}
  /\ now = (MaxDay - 1) * MsPerDay
  /\ timestamps = <<>>
  /\ streak = calculateStreak(host, now, timestamps)
  /\ request = <<>>
  /\ estimated = [TES |-> 0, VTR |-> 0, PAI |-> 0]
  /\ thresholds = AURA_PRESETS.moderate
  /\ aura = <<>>
  /\ decision = <<>>
  /\ inverted = <<>>
  /\ dates = <<>>
  /\ metricCall = NoCall
  /\ metricOut = <<>>
  /\ presets = AURA_PRESETS
  /\ heap = 0
  /\ results = <<>>
  /\ page = "none"
  /\ items = <<>>
  /\ selected = <<>>
  /\ ui = <<>>
  /\ history = <<>>
  /\ localStorage = <<>>
  /\ dateNow = 0
  /\ wrapper \in [kind : {"debounce", "throttle"}, delay : Delays]
  /\ timers = {}
  /\ timeoutId = 0
  /\ inThrottle = FALSE
  /\ trace = <<>>

NextTimers ==
  \/ \E args \in Args : CallWrapper(args)
  \/ Timeout
  \/ Tick

SpecTimers == InitTimers /\ [][NextTimers]_vars


(***************************************************************************)
(* Properties of calculateStreak, checked under SpecStreak.                *)
(***************************************************************************)
ActiveDays == {timestamps[i] \div MsPerDay : i \in 1..Len(timestamps)}
Today == now \div MsPerDay
MostRecentDay == CHOOSE d \in ActiveDays : \A e \in ActiveDays : e <= d

\* The number of consecutive days of S counted backward from day d.
RunBack(S, d) ==
  CHOOSE n \in 0..Cardinality(S) :
    /\ \A k \in 0..(n - 1) : (d - k) \in S
    /\ (d - n) \notin S

\* The length of the longest run of consecutive days in S.
LongestRun(S) ==
  CHOOSE n \in 0..Cardinality(S) :
    /\ n > 0 => \E a \in S : \A k \in 0..(n - 1) : (a + k) \in S
    /\ ~ \E a \in S : \A k \in 0..n : (a + k) \in S

\* C1: for every timestamp list and clock value, longest >= current >= 0.
C1_LongestAtLeastCurrent ==
  streak.longest >= streak.current /\ streak.current >= 0

\* C2: when the most recent active day is today or yesterday, current is the
\* number of consecutive active days counted backward from that day; today,
\* yesterday and the day before give current = 3 and isActiveToday, and a
\* single timestamp today or yesterday gives current = 1.
C2_CurrentCountsBack ==
  (timestamps # <<>> /\ MostRecentDay \in {Today, Today - 1}) =>
     /\ streak.current = RunBack(ActiveDays, MostRecentDay)
     /\ ActiveDays = {Today, Today - 1, Today - 2} =>
          streak.current = 3 /\ streak.isActiveToday
     /\ Len(timestamps) = 1 => streak.current = 1

\* C3: when the most recent active day of a non-empty list is neither today
\* nor yesterday, current = 0, whatever longest is.
C3_StaleStreakIsZero ==
  (timestamps # <<>> /\ MostRecentDay \notin {Today, Today - 1}) =>
     streak.current = 0

C3_Witness ==
  /\ ActiveDays = {Today - 5}
  /\ Len(timestamps) = 2
  /\ streak.current = 0
  /\ streak.longest = 1

\* C4: for a non-empty list, longest is the length of the longest run of
\* distinct active days each one day after the previous, the final open run
\* included; it is 1 when every timestamp is on the same day.
C4_LongestIsLongestRun ==
  timestamps # <<>> =>
     /\ streak.longest = LongestRun(ActiveDays)
     /\ Cardinality(ActiveDays) = 1 => streak.longest = 1

C4_Witness ==
  /\ ActiveDays = {Today - 4, Today - 1, Today}
  /\ streak.longest = 2

\* C5: isActiveToday is true if and only if today's day key is one of the
\* active day keys of the input.
C5_ActiveTodayIffMember ==
  streak.isActiveToday <=> (Today \in ActiveDays)

\* C6: current, longest and isActiveToday depend only on the set of active
\* days: another timestamp on an active day, or a reordering of the list,
\* changes none of them.
C6_DependsOnDaySetOnly ==
  [][({timestamps'[i] \div MsPerDay : i \in 1..Len(timestamps')} = ActiveDays
        /\ now' = now /\ host' = host)
      => /\ streak'.current = streak.current
         /\ streak'.longest = streak.longest
         /\ streak'.isActiveToday = streak.isActiveToday]_vars

C6_Witness ==
  /\ Len(timestamps) = 3
  /\ ActiveDays = {Today - 1, Today}
  /\ timestamps[1] < timestamps[2]
  /\ streak.current = 2
  /\ streak.longest = 2
  /\ streak.isActiveToday

\* C17: for an empty timestamp list calculateStreak returns exactly
\* {current 0, longest 0, lastActive null, isActiveToday false}, whatever
\* the clock value.
C17_EmptyListResult ==
  timestamps = <<>> =>
    streak = [current |-> 0, longest |-> 0, lastActive |-> <<>>,
              isActiveToday |-> FALSE]

C17_Witness ==
  /\ timestamps = <<>>
  /\ now = (MaxDay - 1) * MsPerDay + 23 * MsPerHour
  /\ host.name = "Asia/Tokyo"
  /\ streak.longest = 0
  /\ streak.lastActive = <<>>

MaxStamp == CHOOSE t \in {timestamps[i] : i \in 1..Len(timestamps)} :
              \A i \in 1..Len(timestamps) : timestamps[i] <= t

\* C18: for a non-empty list lastActive is the maximum raw timestamp of the
\* input, an element of the input and not a day-bucketed value, also when
\* it lies after the current clock.
C18_LastActiveIsMaxRaw ==
  timestamps # <<>> =>
    /\ streak.lastActive = <<MaxStamp>>
    /\ \E i \in 1..Len(timestamps) : streak.lastActive = <<timestamps[i]>>

C18_Witness ==
  /\ Len(timestamps) = 3
  /\ timestamps[2] > timestamps[1]
  /\ timestamps[2] > timestamps[3]
  /\ timestamps[2] > now
  /\ streak.lastActive = <<timestamps[2]>>
  /\ streak.current = 0

(***************************************************************************)
(* Properties of validateAURA, checked under SpecAura.                     *)
(***************************************************************************)
MetricNames == <<"TES", "VTR", "PAI">>

\* Every AURAMetrics record in the state, with the thresholds it was
\* validated against: the caller's own validation, the decision's metrics
\* and the inversion's newMetrics.
Produced ==
  {<<aura[i], thresholds>> : i \in 1..Len(aura)}
    \cup {<<decision[i].metrics, thresholds>> : i \in 1..Len(decision)}
    \cup {<<decision[i].inversion[1].newMetrics, AURA_PRESETS.moderate>> :
            i \in {j \in 1..Len(decision) : decision[j].inversion # <<>>}}
    \cup {<<inverted[i].newMetrics, AURA_PRESETS.moderate>> : i \in 1..Len(inverted)}

MeetsAll(m, t) == m.TES >= t.TES /\ m.VTR >= t.VTR /\ m.PAI >= t.PAI

\* C7: validateAURA returns valid = true if and only if every metric is at
\* least its threshold (equal passes), and warnings is empty under exactly
\* the same condition.
C7_ValidIffAllMeet ==
  \A i \in 1..Len(aura) :
    /\ aura[i].valid <=> MeetsAll(estimated, thresholds)
    /\ (aura[i].warnings = <<>>) <=> MeetsAll(estimated, thresholds)

C7_Witness ==
  /\ aura # <<>>
  /\ estimated.TES > thresholds.TES
  /\ estimated.VTR = thresholds.VTR
  /\ estimated.PAI = thresholds.PAI
  /\ aura[1].valid
  /\ aura[1].warnings = <<>>

\* C8: every AURAMetrics record produced by validateAURA, directly, as
\* filterDecision's metrics or as vectorInversion's newMetrics, has
\* valid = (warnings is empty).
C8_ValidIsNoWarnings ==
  \A p \in Produced : p[1].valid <=> (p[1].warnings = <<>>)

C8_Witness ==
  /\ aura # <<>>
  /\ decision # <<>>
  /\ ~ aura[1].valid
  /\ estimated.TES >= thresholds.TES
  /\ Len(aura[1].warnings) = 1
  /\ ~ decision[1].passed
  /\ decision[1].inversion[1].newMetrics.valid

\* C9: the warnings are exactly one for each metric strictly below its
\* threshold and none for any other, in the order TES, VTR, PAI, each
\* naming its metric.
C9_OneWarningPerFailingMetric ==
  \A i \in 1..Len(aura) :
    LET failing == SelectSeq(MetricNames, LAMBDA k : estimated[k] < thresholds[k])
    IN [j \in 1..Len(aura[i].warnings) |-> aura[i].warnings[j].metric] = failing

C9_Witness ==
  /\ aura # <<>>
  /\ estimated.TES < thresholds.TES
  /\ estimated.VTR >= thresholds.VTR
  /\ estimated.PAI < thresholds.PAI
  /\ Len(aura[1].warnings) = 2
  /\ aura[1].warnings[1].metric = "TES"
  /\ aura[1].warnings[2].metric = "PAI"

SeverityFloor == [TES |-> 50, VTR |-> 100, PAI |-> 60]

\* C10: a warning's severity is "high" if the metric value is below the
\* metric's fixed floor (TES 0.5, VTR 1.0, PAI 0.6) and "medium" otherwise,
\* whatever the thresholds, and never "low"; {TES 0.60, VTR 1.5, PAI 0.80}
\* under the moderate preset gives exactly one warning, for TES, of
\* severity "medium", and valid = false.
C10_SeverityByFixedFloor ==
  /\ \A p \in Produced :
       \A j \in 1..Len(p[1].warnings) :
         LET w == p[1].warnings[j]
         IN /\ w.severity =
                 (IF p[1][w.metric] < SeverityFloor[w.metric] THEN "high" ELSE "medium")
            /\ w.severity # "low"
  /\ \A i \in 1..Len(aura) :
       (estimated = [TES |-> 60, VTR |-> 150, PAI |-> 80]
          /\ thresholds = AURA_PRESETS.moderate)
       => /\ Len(aura[i].warnings) = 1
          /\ aura[i].warnings[1].metric = "TES"
          /\ aura[i].warnings[1].severity = "medium"
          /\ aura[i].valid = FALSE

C10_Witness ==
  /\ aura # <<>>
  /\ estimated = [TES |-> 60, VTR |-> 150, PAI |-> 80]
  /\ thresholds = AURA_PRESETS.moderate
  /\ Len(aura[1].warnings) = 1
  /\ aura[1].warnings[1].severity = "medium"

(***************************************************************************)
(* Properties of filterDecision and vectorInversion, checked under         *)
(* SpecAura.                                                               *)
(***************************************************************************)
MetricIndex == [TES |-> 1, VTR |-> 2, PAI |-> 3]
Failing == {k \in {"TES", "VTR", "PAI"} : estimated[k] < thresholds[k]}
Gap(k) == thresholds[k] - estimated[k]

\* C11: filterDecision never returns a bare refusal: the result echoes the
\* action, has passed = metrics.valid, and carries an inversion if and only
\* if passed is false.
C11_NeverBareRefusal ==
  \A i \in 1..Len(decision) :
    /\ decision[i].action = request
    /\ decision[i].passed = decision[i].metrics.valid
    /\ (decision[i].inversion # <<>>) <=> ~ decision[i].passed

C11_Witness ==
  /\ decision # <<>>
  /\ ~ decision[1].passed
  /\ decision[1].inversion # <<>>
  /\ decision[1].action = request

C13_RoundTripSameThresholds ==
  \A i \in 1..Len(decision) :
    ~ decision[i].passed =>
      \A clock \in Clocks :
        validateAURA(decision[i].inversion[1].newMetrics, thresholds, clock).valid
          = decision[i].inversion[1].newMetrics.valid

\* C14: the alternative produced by vectorInversion passes all three
\* metrics: newMetrics is valid and has no warnings, the failed metric at
\* its recovered value (TES 0.85, VTR 2.0, PAI 0.90) and the other two at
\* their boost values (0.75, 1.8, 0.85).
C14_AlternativePasses ==
  \A inv \in {inverted[i] : i \in 1..Len(inverted)}
               \cup {decision[i].inversion[1] :
                       i \in {j \in 1..Len(decision) : decision[j].inversion # <<>>}} :
    /\ inv.newMetrics.valid
    /\ inv.newMetrics.warnings = <<>>
    /\ inv.newMetrics.TES = (IF inv.failedMetric = "TES" THEN 85 ELSE 75)
    /\ inv.newMetrics.VTR = (IF inv.failedMetric = "VTR" THEN 200 ELSE 180)
    /\ inv.newMetrics.PAI = (IF inv.failedMetric = "PAI" THEN 90 ELSE 85)

C14_Witness ==
  /\ inverted # <<>>
  /\ inverted[1].failedMetric = "PAI"
  /\ inverted[1].newMetrics.PAI = 90
  /\ inverted[1].newMetrics.valid

(***************************************************************************)
(* Properties of extractIntent, checked under SpecIntent.                  *)
(***************************************************************************)
IsSpace(c) == c \in {" ", "\t"}

\* The whitespace-separated tokens of a string: its maximal runs of
\* characters that are not whitespace.
RECURSIVE Tokens(_)
Tokens(req) ==
  IF req = <<>> THEN <<>>
  ELSE IF IsSpace(Head(req)) THEN Tokens(Tail(req))
  ELSE LET rest == Tokens(Tail(req))
       IN IF Len(req) > 1 /\ ~ IsSpace(req[2])
          THEN << <<Head(req)>> \o rest[1] >> \o Tail(rest)
          ELSE << <<Head(req)>> >> \o rest

\* C15: originalIntent is the first 10 whitespace-separated tokens of the
\* request, followed by "..." if and only if the request has more than 10
\* tokens; a request of at most 10 tokens is returned unchanged.
C15_FirstTenTokens ==
  \A i \in 1..Len(inverted) :
    LET toks == Tokens(request)
    IN inverted[i].originalIntent =
         (IF Len(toks) > 10
          THEN JoinSpace(SubSeq(toks, 1, 10)) \o <<".", ".", ".">>
          ELSE request)

(***************************************************************************)
(* Properties of the date helpers, checked under SpecDates.                *)
(***************************************************************************)
\* C16: under any fixed host UTC offset one day-boundary policy is applied:
\* isToday(t) holds iff getDateKey(t) = getDateKey(now), isYesterday(t)
\* holds iff getDateKey(t) = getDateKey(now - 24h), and the helpers agree
\* with calculateStreak's isActiveToday on the day of a timestamp.
C16_OneDayBoundaryPolicy ==
  FixedOffset(host) =>
    \A i \in 1..Len(dates) :
      /\ dates[i].isToday <=> (dates[i].dateKey = now \div MsPerDay)
      /\ dates[i].isYesterday <=> (dates[i].dateKey = (now - MsPerDay) \div MsPerDay)
      /\ dates[i].isToday <=> streak.isActiveToday

(***************************************************************************)
(* Properties of the metric formulas, checked under SpecMetrics.           *)
(***************************************************************************)
Called(fn) == metricCall.fn = fn /\ metricOut # <<>>

\* C20: no metric formula divides by zero: calculateVTR returns exactly
\* 10.0 whenever valueCaptured = 0 and calculateTES exactly 1.0 whenever
\* totalElements = 0, whatever the other parameters; calculatePAI returns
\* 1.0 for an empty actionElements list and calculateEarnedLight uses 0.5
\* for a reliability whose total is 0.
C20_ZeroDenominatorsGuarded ==
  /\ Called("calculateVTR") /\ metricCall.params.valueCaptured = 0
       => metricOut[1] = 1000
  /\ Called("calculateTES") /\ metricCall.params.totalElements = 0
       => metricOut[1] = 100
  /\ Called("calculatePAI") /\ metricCall.params.actionElements = <<>>
       => metricOut[1] = 100
  /\ Called("calculateEarnedLight") /\ metricCall.params.recentActions.total = 0
       => metricOut[1].shortTermReliability = 50
  /\ Called("calculateEarnedLight") /\ metricCall.params.historicalActions.total = 0
       => metricOut[1].longTermReliability = 50
  /\ Called("calculateEarnedLight")
       /\ metricCall.params.recentActions.total = 0
       /\ metricCall.params.historicalActions.total = 0
       => metricOut[1].earnedLight = 50

C20_Witness ==
  /\ Called("calculateVTR")
  /\ metricCall.params.valueCaptured = 0
  /\ metricCall.params.valueOffered = 3
  /\ metricCall.params.skillsTransferred = 10
  /\ metricOut = <<1000>>

(***************************************************************************)
(* The frame of the four functions, checked under SpecFrame.               *)
(***************************************************************************)
\* C19: no call of validateAURA, filterDecision, vectorInversion or
\* calculateStreak, in any sequence of calls, changes AURA_PRESETS, the
\* threshold triple passed in, the metric triple passed in or the timestamp
\* list passed in, and every result record is a new object: none that
\* existed before the call.
C19_CallsLeaveArgumentsAlone ==
  [][/\ presets' = AURA_PRESETS
     /\ presets' = presets
     /\ thresholds' = thresholds
     /\ estimated' = estimated
     /\ timestamps' = timestamps
     /\ Len(results') = Len(results) + 1
     /\ LET r == results'[Len(results')]
        IN /\ r.ref > heap
           /\ \A i \in 1..Len(results) : results[i].ref # r.ref]_vars

C19_Witness ==
  /\ Len(results) = MaxCalls
  /\ {results[i].fn : i \in 1..Len(results)}
       = {"calculateStreak", "validateAURA", "filterDecision", "vectorInversion"}
  /\ Len(timestamps) = 2
  /\ timestamps[1] < timestamps[2]
  /\ thresholds = presets.moderate
  /\ estimated.TES < thresholds.TES

(***************************************************************************)
(* Malformed input, checked under SpecMalformed.                           *)
(***************************************************************************)
\* C21: malformed input is rejected, never turned into a result:
\* calculateStreak given a list with a non-finite timestamp and validateAURA
\* given a NaN metric raise instead of returning a record; a returned
\* record is complete and consistent; and for well-formed numeric input
\* neither function raises.
C21_MalformedInputRaises ==
  /\ Called("validateAURA") =>
       LET m == metricCall.params.metrics
           o == metricOut[1]
       IN /\ o.raised <=> (m.TES = NaN \/ m.VTR = NaN \/ m.PAI = NaN)
          /\ ~o.raised => (o.value.valid <=> o.value.warnings = <<>>)
  /\ Called("calculateStreak") =>
       LET ts == metricCall.params.timestamps
           o == metricOut[1]
       IN /\ o.raised <=> (\E i \in 1..Len(ts) : ts[i] = NaN)
          /\ ~o.raised => o.value.longest >= 0

(***************************************************************************)
(* Ranges of the metric formulas, checked under SpecMetrics.               *)
(***************************************************************************)
\* C22: TES and PAI are 0-1 scores: for non-negative element counts,
\* clarityScore and anxietyInduced in 0..1 and any two string lists,
\* calculateTES and calculatePAI return a value between 0 and 1 inclusive.
C22_ScoresInUnitRange ==
  /\ Called("calculateTES") => metricOut[1] >= 0 /\ metricOut[1] <= 100
  /\ Called("calculatePAI") => metricOut[1] >= 0 /\ metricOut[1] <= 100

\* A reliability of the claim, as <<numerator, denominator>>.
Ratio(actions) ==
  IF actions.total = 0 THEN <<1, 2>> ELSE <<actions.succeeded, actions.total>>

\* C23: calculateEarnedLight respects G <= EL - tau: for succeeded <= total
\* and influence, consent and tau in 0..1 the returned governanceCapacity
\* is at most EL - tau, where EL = (SRS + LRS) / 2.
C23_GovernanceWithinEarnedLight ==
  Called("calculateEarnedLight") =>
    LET q == metricCall.params
        S == Ratio(q.recentActions)
        L == Ratio(q.historicalActions)
    IN \* governanceCapacity / 100 <= (S + L) / 2 - tau / 100
       2 * S[2] * L[2] * metricOut[1].governanceCapacity
         <= 100 * (S[1] * L[2] + L[1] * S[2]) - 2 * S[2] * L[2] * q.tau

(***************************************************************************)
(* Properties of the pages, checked under SpecPages.                       *)
(***************************************************************************)
\* The entry of list with the id of e, as <<>> or <<entry>>.
Former(list, e) ==
  IF \E j \in 1..Len(list) : list[j].id = e.id
  THEN <<list[CHOOSE j \in 1..Len(list) : list[j].id = e.id]>>
  ELSE <<>>

\* C26: a life script's status only moves forward: a script is created
\* 'identified', becomes 'integrated' only by Mark Integrated, which needs
\* a status other than 'integrated' and newStrength >= 7, and once
\* 'integrated' it stays 'integrated' under every later operation.
C26_StatusOnlyForward ==
  [][page = "scripts" =>
       \A i \in 1..Len(items') :
         LET e == items'[i]
             o == Former(items, e)
         IN IF o = <<>> THEN e.status = "identified"
            ELSE /\ o[1].status = "integrated" => e.status = "integrated"
                 /\ o[1].status # "integrated" /\ e.status = "integrated"
                      => o[1].newStrength >= 70]_vars

ClaimedDelta ==
  [projected |-> 0 - 2, suppressed |-> 0 - 1, acknowledged |-> 3, integrated |-> 5]
Clamped(level) == IF level < 0 THEN 0 ELSE IF level > 100 THEN 100 ELSE level

\* C27: a shadow aspect's integrationLevel stays within 0..100: it starts
\* at 10, each logEncounter appends exactly one encounter and changes the
\* level by -2 (projected), -1 (suppressed), +3 (acknowledged) or +5
\* (integrated), clamped to 0..100, and nothing else changes the level.
C27_IntegrationLevelBounded ==
  [][page = "shadow" =>
       /\ \A i \in 1..Len(items) : items[i].integrationLevel \in 0..100
       /\ \A i \in 1..Len(items') :
            LET e == items'[i]
                o == Former(items, e)
                n == Len(e.encounters)
            IN /\ e.integrationLevel \in 0..100
               /\ IF o = <<>>
                  THEN e.integrationLevel = 10 /\ e.encounters = <<>>
                  ELSE \/ /\ e.encounters = o[1].encounters
                          /\ e.integrationLevel = o[1].integrationLevel
                       \/ /\ n = Len(o[1].encounters) + 1
                          /\ SubSeq(e.encounters, 1, n - 1) = o[1].encounters
                          /\ e.integrationLevel =
                               Clamped(o[1].integrationLevel
                                         + ClaimedDelta[e.encounters[n].response])]_vars

C27_Witness ==
  /\ page = "shadow"
  /\ selected # <<>>
  /\ selected[1].integrationLevel = 0
  /\ Len(selected[1].encounters) = 6
  /\ \A j \in 1..6 : selected[1].encounters[j].response = "projected"
  /\ items[1] = selected[1]
  /\ localStorage[StorageKeys.shadow] # <<>>


(***************************************************************************)
(* Properties of the quantum-decision page, checked under SpecPages. *)
(***************************************************************************)
Decisions ==
  IF page = "quantum"
  THEN {items[i] : i \in 1..Len(items)} \cup {selected[i] : i \in 1..Len(selected)}
  ELSE {}

StateIds(qd) == {qd.states[i].id : i \in 1..Len(qd.states)}

CollapsedToOwnState(qd) ==
  qd.collapsed =>
    /\ qd.collapsedTo # <<>>
    /\ qd.collapsedTo[1] \in StateIds(qd)

\* The decision of the same id after the step is as collapsed as before it.
StaysCollapsed(qd) ==
  \A i \in 1..Len(items') :
    items'[i].id = qd.id =>
      /\ items'[i].collapsed
      /\ items'[i].states = qd.states
      /\ items'[i].collapsedTo = qd.collapsedTo
      /\ items'[i].collapseMethod = qd.collapseMethod

\* C25: a collapsed decision has collapsedTo equal to the id of one of its
\* own states, and no page action changes the states, collapsedTo or
\* collapseMethod of a decision that is collapsed (nor removes it).
C25_CollapsesAtMostOnce ==
  /\ [](\A qd \in Decisions : CollapsedToOwnState(qd))
  /\ [][page = "quantum" =>
          /\ \A i \in 1..Len(items) :
               items[i].collapsed =>
                 /\ \E j \in 1..Len(items') : items'[j].id = items[i].id
                 /\ StaysCollapsed(items[i])
          /\ \A i \in 1..Len(selected) :
               selected[i].collapsed =>
                 /\ StaysCollapsed(selected[i])
                 /\ selected' \in {<<>>, selected}]_vars

\* A decision of two options was adjusted and then collapsed at random to
\* its second state, and the detail view was closed after it.
C25_Witness ==
  /\ page = "quantum"
  /\ selected = <<>>
  /\ \E i \in 1..Len(items) :
       /\ items[i].collapsed
       /\ Len(items[i].states) = 2
       /\ items[i].states[1].amplitude > items[i].states[2].amplitude
       /\ items[i].collapseMethod = <<"random">>
       /\ items[i].collapsedTo = <<items[i].states[2].id>>


(***************************************************************************)
(* Properties of the local storage of the pages, checked under SpecPages.  *)
(***************************************************************************)
Stored == localStorage[StorageKeys[page]]

\* What is stored is the serialization of the list in memory.
StorageIsItems == items # <<>> => Stored = <<stringify(page, items)>>

Prepended == Len(items') = Len(items) + 1 /\ Tail(items') = items

ReplacedById ==
  /\ Len(items') = Len(items)
  /\ \E k \in 1..Len(items) :
       /\ items'[k].id = items[k].id
       /\ \A i \in 1..Len(items) : items[i].id # items[k].id => items'[i] = items[i]

\* C24: on every page the array stored under the key of the page is the
\* array in memory (as JSON.stringify writes it), a write to storage is of
\* the array in memory after the step, a create prepends exactly one entry,
\* and an update replaces only the entry of the matching id and leaves the
\* other entries, the order and the length as they were.
C24_StorageMirrorsMemory ==
  /\ [](page # "none" => StorageIsItems)
  /\ [][page # "none" =>
          /\ Stored' # Stored => Stored' = <<stringify(page, items')>>
          /\ items' # items => Prepended \/ ReplacedById
          /\ Len(items') > Len(items) => Prepended
          /\ Len(items') = Len(items) /\ Stored' # Stored => ReplacedById]_vars

\* A shadow was created in the session on top of a loaded one and the
\* loaded one was then updated by an encounter; both are in storage.
C24_Witness ==
  /\ page = "shadow"
  /\ Len(items) = 2
  /\ items[1].createdAt = SessionStart
  /\ items[1].encounters = <<>>
  /\ items[2].createdAt < SessionStart
  /\ \E j \in 1..Len(items[2].encounters) :
       items[2].encounters[j].timestamp > SessionStart
  /\ Stored = <<stringify(page, items)>>


(***************************************************************************)
(* Properties of the persisted logs, checked under SpecLogs.               *)
(***************************************************************************)
StoredLog(key) == IF localStorage[key] = <<>> THEN <<>> ELSE localStorage[key][1]

NewestFirst(log) ==
  \A i, j \in 1..Len(log) : i < j => log[i].timestamp >= log[j].timestamp

OldestFirst(log) ==
  \A i, j \in 1..Len(log) : i < j => log[i].timestamp <= log[j].timestamp

\* One entry was put at the front and what is beyond the limit, at the
\* back, was dropped.
PushedFront(before, after, limit) ==
  /\ Len(after) = Min(limit, Len(before) + 1)
  /\ Tail(after) = SubSeq(before, 1, Len(after) - 1)

\* One entry was put at the back and what is beyond the limit, at the
\* front, was dropped.
PushedBack(before, after, limit) ==
  /\ Len(after) = Min(limit, Len(before) + 1)
  /\ SubSeq(after, 1, Len(after) - 1) =
       SubSeq(before, Len(before) - Len(after) + 2, Len(before))

\* C28: the resonance log and the collapse history hold at most 50
\* entries, newest first, and the error log at most 10, oldest first; a
\* write puts one entry at the newest end and drops, beyond the limit,
\* the oldest entries.
C28_LogsBoundedNewestKept ==
  /\ [](/\ Len(StoredLog(ResonanceKey)) <= LogLimit
        /\ NewestFirst(StoredLog(ResonanceKey))
        /\ Len(StoredLog(HistoryKey)) <= LogLimit
        /\ NewestFirst(StoredLog(HistoryKey))
        /\ Len(StoredLog(ErrorsKey)) <= ErrorLimit
        /\ OldestFirst(StoredLog(ErrorsKey)))
  /\ [][/\ localStorage'[ResonanceKey] # localStorage[ResonanceKey] =>
            PushedFront(StoredLog(ResonanceKey), StoredLog(ResonanceKey)', LogLimit)
        /\ localStorage'[HistoryKey] # localStorage[HistoryKey] =>
            PushedFront(StoredLog(HistoryKey), StoredLog(HistoryKey)', LogLimit)
        /\ localStorage'[ErrorsKey] # localStorage[ErrorsKey] =>
            PushedBack(StoredLog(ErrorsKey), StoredLog(ErrorsKey)', ErrorLimit)]_vars

\* A full resonance log was written to twice: the entries of this session
\* are at the front and the two oldest entries of the earlier session are
\* gone.
C28_Witness ==
  /\ page = "resonance"
  /\ Len(StoredLog(ResonanceKey)) = LogLimit
  /\ StoredLog(ResonanceKey)[2].timestamp >= SessionStart
  /\ StoredLog(ResonanceKey)[LogLimit].timestamp = 3


(***************************************************************************)
(* Properties of debounce and throttle, checked under SpecTimers.          *)
(***************************************************************************)
IsCall(p) == p \in 1..Len(trace) /\ trace[p].type = "call"
IsFn(p) == p \in 1..Len(trace) /\ trace[p].type = "fn"
IsTimeout(p) == p \in 1..Len(trace) /\ trace[p].type = "timeout"

\* q is the call that follows the call p.
NextCall(p, q) ==
  /\ IsCall(p) /\ IsCall(q) /\ p < q
  /\ \A r \in (p + 1)..(q - 1) : ~IsCall(r)

\* f is an invocation of fn for the call p, with the arguments of p.
FnFor(f, p) ==
  /\ IsFn(f)
  /\ trace[f].call = trace[p].call
  /\ trace[f].args = trace[p].args

NeverSynchronous == \A f \in 1..Len(trace) : IsFn(f) => ~trace[f].sync

\* By the clock: p is the last call of a burst, no call follows it within
\* less than delay.
EndsBurstByClock(p) ==
  /\ IsCall(p)
  /\ \A q \in 1..Len(trace) :
       NextCall(p, q) => trace[q].at - trace[p].at >= wrapper.delay

\* C29 as stated: fn is never invoked synchronously, and it is invoked
\* exactly once for each maximal burst of calls less than delay apart,
\* delay after the last call of the burst and with its arguments.
C29_OncePerBurstByClock ==
  wrapper.kind = "debounce" =>
    /\ NeverSynchronous
    /\ \A f \in 1..Len(trace) :
         IsFn(f) =>
           \E p \in 1..Len(trace) :
             /\ EndsBurstByClock(p)
             /\ FnFor(f, p)
             /\ trace[f].at = trace[p].at + wrapper.delay
    /\ \A p \in 1..Len(trace) :
         EndsBurstByClock(p) /\ dateNow > trace[p].at + wrapper.delay =>
           Cardinality({f \in 1..Len(trace) : FnFor(f, p)}) = 1

\* By the timer: p is the last call of a burst, the timer it set has fired
\* or is still set.
EndsBurst(p) ==
  /\ IsCall(p)
  /\ p = Len(trace) \/ IsFn(p + 1)

\* C29 as amended: fn is never invoked synchronously; it is invoked exactly
\* once for each maximal burst of calls in which every call is made before
\* the timer of the call before it has fired, as it is when they are less
\* than delay apart; the invocation is delay after the last call of the
\* burst, not earlier, and has its arguments; a burst that has not been
\* invoked for has its timer set.
C29_OncePerBurstByTimer ==
  wrapper.kind = "debounce" =>
    /\ NeverSynchronous
    /\ \A f \in 1..Len(trace) :
         IsFn(f) =>
           /\ IsCall(f - 1)
           /\ FnFor(f, f - 1)
           /\ trace[f].at >= trace[f - 1].at + wrapper.delay
    /\ \A p, q \in 1..Len(trace) :
         NextCall(p, q) /\ trace[q].at - trace[p].at < wrapper.delay => q = p + 1
    /\ IsCall(Len(trace)) =>
         timers = {[id |-> Len(trace), due |-> trace[Len(trace)].at + wrapper.delay,
                    args |-> trace[Len(trace)].args,
                    call |-> trace[Len(trace)].call]}
    /\ ~IsCall(Len(trace)) => timers = {}

\* Two calls a millisecond apart and a delay of two: fn was invoked once,
\* two milliseconds after the second call and with its arguments.
C29_Witness ==
  /\ wrapper = [kind |-> "debounce", delay |-> 2]
  /\ Len(trace) = 3
  /\ IsCall(1) /\ trace[1].at = 0 /\ trace[1].args = "a"
  /\ IsCall(2) /\ trace[2].at = 1 /\ trace[2].args = "b"
  /\ IsFn(3) /\ trace[3].at = 3 /\ trace[3].args = "b"

\* The call p invoked fn, at once and with its arguments.
Invoking(p) ==
  /\ IsCall(p)
  /\ FnFor(p + 1, p)
  /\ trace[p + 1].sync
  /\ trace[p + 1].at = trace[p].at

NeverReplayed == \A f \in 1..Len(trace) : IsFn(f) => Invoking(f - 1)

\* By the clock: at the call p a window of length limit is open.
WindowOpenByClock(p) ==
  \E q \in 1..(p - 1) : Invoking(q) /\ trace[p].at < trace[q].at + wrapper.delay

\* C30 as stated: the first call invokes fn at once; a call in a window
\* of length limit is dropped, and is not replayed; a call that is not in
\* a window, as the first call after a window, invokes fn.
C30_OncePerWindowByClock ==
  wrapper.kind = "throttle" =>
    /\ NeverReplayed
    /\ \A p \in 1..Len(trace) : IsCall(p) => (Invoking(p) <=> ~WindowOpenByClock(p))

\* By the timer: at the call p the timer of a window has not fired.
WindowOpen(p) ==
  \E q \in 1..(p - 1) :
    Invoking(q) /\ \A r \in (q + 1)..(p - 1) : ~IsTimeout(r)

\* C30 as amended: the first call invokes fn at once; a window is open
\* from an invocation until the timer that was set at it fires, which is
\* limit later and not earlier; a call in an open window is dropped, and is
\* not replayed, so that fn is invoked at most once per window and no two
\* invocations are less than limit apart; a call when no window is open
\* invokes fn.
C30_OncePerWindowByTimer ==
  wrapper.kind = "throttle" =>
    /\ NeverReplayed
    /\ \A p \in 1..Len(trace) : IsCall(p) => (Invoking(p) <=> ~WindowOpen(p))
    /\ \A p \in 1..Len(trace) :
         IsTimeout(p) =>
           \E q \in 1..(p - 1) :
             /\ Invoking(q)
             /\ trace[q].call = trace[p].call
             /\ trace[p].at >= trace[q].at + wrapper.delay
    /\ \A p, q \in 1..Len(trace) :
         Invoking(p) /\ Invoking(q) /\ p < q =>
           trace[q].at >= trace[p].at + wrapper.delay
    /\ inThrottle <=> timers # {}

\* A limit of one: the first call invoked fn, the second, in the same
\* millisecond, was dropped, and the third, after the timeout, invoked fn.
C30_Witness ==
  /\ wrapper = [kind |-> "throttle", delay |-> 1]
  /\ Len(trace) = 6
  /\ Invoking(1) /\ trace[1].at = 0
  /\ IsCall(3) /\ trace[3].at = 0
  /\ IsTimeout(4)
  /\ Invoking(5) /\ trace[5].at = 1

====
